---------------------------- MODULE Spec2Model ----------------------------
(***************************************************************************)
(* Model of bq-sql-antipattern-checker.                                    *)
(*                                                                         *)
(* Part 1 (specification Spec): Job.check_antipatterns, the loop that      *)
(* splits a job into statements, skips or parses each one, runs every      *)
(* enabled rule inside its own try/except and merges the rule's result     *)
(* into the job's fields (src/src/bq_sql_antipattern_checker/classes.py).  *)
(* The parser and the rules are inputs of this part: a statement is given  *)
(* by what the loop observes of it (does its text contain "declare", does  *)
(* parse_one raise, does the tree hold a UserDefinedFunction or a SetItem, *)
(* and what each rule returns or raises on it).                            *)
(*                                                                         *)
(* Part 2 (specification SpecResolver): functions.get_queried_tables, the  *)
(* symbol resolver (src/src/bq_sql_antipattern_checker/functions.py).      *)
(***************************************************************************)
EXTENDS Integers, Sequences, FiniteSets, TLC

(***************************************************************************)
(* Bounds of the model.                                                    *)
(***************************************************************************)
\* Largest number of statements sqlparse.split returns for one job.
MaxStatements == 2
\* Largest number of rules that, on one statement, do anything else than
\* return a plain "not triggered".
MaxActive == 2
\* Number of distinct catalog tables the evidence rules can report.
NumTables == 1

(***************************************************************************)
(* Generic helpers.                                                        *)
(***************************************************************************)
Range(s) == {s[k] : k \in DOMAIN s}

NoDuplicates(s) == \A a, b \in DOMAIN s : a # b => s[a] # s[b]

\* All duplicate-free sequences over the set S.
Arrangements(S) ==
    UNION {{s \in [1..m -> S] : NoDuplicates(s)} : m \in 0..Cardinality(S)}

\* All orders in which the elements of S can be enumerated.
Permutations_(S) == {s \in [1..Cardinality(S) -> S] : Range(s) = S}

(***************************************************************************)
(* The rules, in the order check_antipatterns runs them.                   *)
(***************************************************************************)
RuleOrder ==
    << "partition_used", "big_date_range", "big_table_no_date", "select_star",
       "multiple_cte_reference", "semi_join_without_aggregation",
       "order_without_limit", "like_before_more_selective", "regexp_in_where",
       "unpartitioned_tables", "distinct_on_big_table",
       "count_distinct_on_big_table" >>

Rules == Range(RuleOrder)

\* Rules that return (bool, list); the others return a bool.
EvidenceRules == {"partition_used", "big_table_no_date", "unpartitioned_tables"}

\* The boolean field of Job each rule writes.
FlagOf(r) ==
    CASE r = "partition_used" -> "partition_not_used"
      [] r = "big_date_range" -> "big_date_range"
      [] r = "big_table_no_date" -> "no_date_on_big_table"
      [] r = "select_star" -> "select_star"
      [] r = "multiple_cte_reference" -> "references_cte_multiple_times"
      [] r = "semi_join_without_aggregation" -> "semi_join_without_aggregation"
      [] r = "order_without_limit" -> "order_without_limit"
      [] r = "like_before_more_selective" -> "like_before_more_selective"
      [] r = "regexp_in_where" -> "regexp_in_where"
      [] r = "unpartitioned_tables" -> "queries_unpartitioned_table"
      [] r = "distinct_on_big_table" -> "distinct_on_big_table"
      [] r = "count_distinct_on_big_table" -> "count_distinct_on_big_table"

\* The list field of Job an evidence rule writes.
ListOf(r) ==
    CASE r = "partition_used" -> "available_partitions"
      [] r = "big_table_no_date" -> "tables_without_date_filter"
      [] r = "unpartitioned_tables" -> "unpartitioned_tables"

(***************************************************************************)
(* Catalog tables the evidence rules can name.                             *)
(***************************************************************************)
TablePool == << "proj.ds.events", "proj.ds.orders", "proj.ds.users", "proj.ds.clicks" >>

Tables == {TablePool[k] : k \in 1..NumTables}

\* columns_dict[t]["partitioned_column"] of a reported table.
partitioned_column(t) == IF t = "proj.ds.events" THEN "dt" ELSE "event_date"

\* One element of the list check_partition_used returns.
PartitionEvidence(t) ==
    [table_name |-> t, partitioned_column |-> partitioned_column(t)]

\* The "nothing found" markers check_antipatterns writes.
PartitionPlaceholder == [table_name |-> "-", partitioned_column |-> "-"]

Placeholder == "-"

(***************************************************************************)
(* What a rule does on a statement: it raises, or it returns a flag and    *)
(* (evidence rules) the list of tables it found, flag = list non-empty.    *)
(***************************************************************************)
Quiet == [status |-> "ok", flag |-> FALSE, evidence |-> << >>]

Raises == [status |-> "raise", flag |-> FALSE, evidence |-> << >>]

Triggered(ev) == [status |-> "ok", flag |-> TRUE, evidence |-> ev]

\* The outcomes of rule r other than Quiet.
ActiveOutcomes(r) ==
    IF r \in EvidenceRules
    THEN {Raises} \cup {Triggered(ev) : ev \in Arrangements(Tables) \ {<< >>}}
    ELSE {Raises, Triggered(<< >>)}

AllActiveOutcomes == UNION {ActiveOutcomes(r) : r \in Rules}

ActiveSets == {S \in SUBSET Rules : Cardinality(S) <= MaxActive}

\* Per-rule outcomes of one statement: at most MaxActive rules are not Quiet.
Profiles ==
    UNION {{[r \in Rules |-> IF r \in S THEN a[r] ELSE Quiet] :
              a \in {b \in [S -> AllActiveOutcomes] :
                        \A r \in S : b[r] \in ActiveOutcomes(r)}} :
           S \in ActiveSets}

QuietProfile == [r \in Rules |-> Quiet]

(***************************************************************************)
(* What check_antipatterns observes of one statement.                      *)
(*   text: "declare_statement" (a DECLARE statement), "mentions_declare"   *)
(*         (another statement whose text contains the letters "declare",   *)
(*         e.g. a column named declared_at) or "plain";                    *)
(*   parse_error: parse_one raises on it;                                  *)
(*   udf, set_item: the parsed tree holds a UserDefinedFunction / SetItem; *)
(*   res: what each rule returns or raises when run on its tree.           *)
(***************************************************************************)
Statement(text, parse_error, udf, set_item, res) ==
    [text |-> text, parse_error |-> parse_error, udf |-> udf,
     set_item |-> set_item, res |-> res]

\* Profiles with at most one active rule, for the statements whose rules the
\* loop is expected to leave alone.
SmallProfiles ==
    {p \in Profiles : Cardinality({r \in Rules : p[r] # Quiet}) <= MaxActive - 1}

StatementInputs ==
    {Statement("plain", FALSE, FALSE, FALSE, p) : p \in Profiles}
    \cup {Statement("mentions_declare", FALSE, FALSE, FALSE, p) : p \in SmallProfiles}
    \cup {Statement("declare_statement", FALSE, FALSE, FALSE, QuietProfile)}
    \cup {Statement("plain", TRUE, FALSE, FALSE, QuietProfile)}
    \cup {Statement("plain", FALSE, u, s, p) :
            u \in BOOLEAN, s \in BOOLEAN, p \in SmallProfiles}

\* Value of cur before the first statement.
NoStatement == Statement("none", FALSE, FALSE, FALSE, QuietProfile)

\* "declare" in i.lower()
ContainsDeclare(st) == st.text \in {"declare_statement", "mentions_declare"}

(***************************************************************************)
(* State.                                                                  *)
(***************************************************************************)
VARIABLES
    job,            \* the Job object's antipattern fields
    antipatterns,   \* config.antipatterns: rule name -> enabled
    n,              \* len(statements)
    i,              \* number of statements the for loop has taken
    pc,             \* "loop", "done" (returned) or "raised" (an error left the method)
    cur,            \* the statement taken last
    ran,            \* the rules called on cur
    jobs,           \* run_check: the jobs of a run, each with its statements and fields
    queried_tables, \* get_queried_tables: the symbol table under construction
    columns_dict,   \* the table catalog: qualified name -> metadata
    key_order,      \* iteration order of columns_dict.keys()
    row_count,      \* get_queried_tables' threshold argument
    ctes,           \* aliases of the CTEs the resolved statement defines
    refs,           \* Table nodes the resolver has visited so far
    rpc,            \* resolver: "walk" or "returned"
    ast,            \* the tree parse_one returned for the statement a rule is given
    verdict         \* the rule called last on ast, and what it returned

jobVars == <<job, antipatterns, n, i, pc, cur, ran, jobs>>

resolverVars == <<queried_tables, columns_dict, key_order, row_count, ctes, refs, rpc>>

ruleVars == <<ast, verdict>>

vars == <<job, antipatterns, n, i, pc, cur, ran, jobs, ast, verdict,
          queried_tables, columns_dict, key_order, row_count, ctes, refs, rpc>>

(***************************************************************************)
(* Job.__init__: every flag False, every list empty.                       *)
(***************************************************************************)
NewJob ==
    [partition_not_used |-> FALSE,
     available_partitions |-> << >>,
     big_date_range |-> FALSE,
     no_date_on_big_table |-> FALSE,
     tables_without_date_filter |-> << >>,
     select_star |-> FALSE,
     references_cte_multiple_times |-> FALSE,
     semi_join_without_aggregation |-> FALSE,
     order_without_limit |-> FALSE,
     like_before_more_selective |-> FALSE,
     regexp_in_where |-> FALSE,
     queries_unpartitioned_table |-> FALSE,
     unpartitioned_tables |-> << >>,
     distinct_on_big_table |-> FALSE,
     count_distinct_on_big_table |-> FALSE]

\* Config._get_default_antipatterns: every rule listed and enabled.
DefaultAntipatterns == [r \in Rules |-> TRUE]

\* Mutant: the configuration is not consulted, every rule counts as enabled.
is_antipattern_enabled_Always(name) == TRUE

\* Config.is_antipattern_enabled: a name the map lacks counts as enabled.
is_antipattern_enabled(name) ==
    IF name \in DOMAIN antipatterns THEN antipatterns[name] ELSE TRUE

EnabledRules == {r \in Rules : is_antipattern_enabled(r)}

(***************************************************************************)
(* The merge of one rule's result into the job, block by block.            *)
(***************************************************************************)
\* list(set(...)) keeps one copy of each element, in an order the program
\* does not control: ord enumerates the possible elements in that order.
Dedup(list, ord) == SelectSeq(ord, LAMBDA x : x \in Range(list))

\* classes.py 121-133: the flag and the list of dicts check_partition_used
\* returned are merged into the job; placeholder is the dict of "-" in the
\* representation of the names in the list.
MergePartitions(j, partition_not_used, available_partitions, placeholder, ord) ==
    IF partition_not_used
    THEN [j EXCEPT !.partition_not_used = partition_not_used,
                   !.available_partitions = Dedup(@ \o available_partitions, ord)]
    ELSE [j EXCEPT !.available_partitions = <<placeholder>>]

\* classes.py 116-133: check_partition_used returned without raising.
MergePartitionUsed(j, o, ord) ==
    MergePartitions(j, o.flag,
                    [k \in DOMAIN o.evidence |-> PartitionEvidence(o.evidence[k])],
                    PartitionPlaceholder, ord)

\* classes.py 138-141: check_big_date_range returned without raising.
MergeBigDateRange(j, o) == [j EXCEPT !.big_date_range = o.flag]

\* classes.py 146-155: check_big_table_no_date returned without raising.
MergeBigTableNoDate(j, o) ==
    IF o.flag
    THEN [j EXCEPT !.no_date_on_big_table = o.flag,
                   !.tables_without_date_filter = @ \o o.evidence]
    ELSE [j EXCEPT !.tables_without_date_filter = <<Placeholder>>]

\* classes.py 160-220, 240-259: self.x = max(rule(ast), self.x).
MergeMax(j, field, o) == [j EXCEPT ![field] = o.flag \/ @]

\* classes.py 223-235: check_unpartitioned_tables returned without raising.
MergeUnpartitionedTables(j, o) ==
    [j EXCEPT !.queries_unpartitioned_table = o.flag \/ @,
              !.unpartitioned_tables =
                  @ \o (IF o.flag \/ j.queries_unpartitioned_table
                        THEN o.evidence ELSE <<Placeholder>>)]

\* The body of rule r's try block once the rule has returned o.
Merge(r, j, o, ord) ==
    CASE r = "partition_used" -> MergePartitionUsed(j, o, ord)
      [] r = "big_date_range" -> MergeBigDateRange(j, o)
      [] r = "big_table_no_date" -> MergeBigTableNoDate(j, o)
      [] r = "unpartitioned_tables" -> MergeUnpartitionedTables(j, o)
      [] OTHER -> MergeMax(j, FlagOf(r), o)

(***************************************************************************)
(* One pass of the for loop.                                               *)
(***************************************************************************)
\* Mutant: the rules share one try statement, so an error raised by a rule
\* escapes its block and skips the blocks after it.
RuleErrorEscapes_SharedTry(r) == TRUE

\* Does an error raised by rule r leave r's own try statement?  Each block
\* ends in "except Exception as e: print(...)" (e.g. classes.py 134-135),
\* so it does not: control falls through to the next block.
RuleErrorEscapes(r) == FALSE

\* Rule r's block is entered and the call raises past the block.
BlockEscapes(r, st) ==
    is_antipattern_enabled(r) /\ st.res[r].status = "raise" /\ RuleErrorEscapes(r)

\* Control reaches the k-th block: no earlier block let an error escape.
Reached(k, st) == \A m \in 1..(k - 1) : ~BlockEscapes(RuleOrder[m], st)

\* The rules called on st when the twelve blocks are run.
Called(st) ==
    {RuleOrder[k] : k \in {m \in DOMAIN RuleOrder :
                             Reached(m, st) /\ is_antipattern_enabled(RuleOrder[m])}}

\* One "if config.is_antipattern_enabled(r): try: ... except" block.
TryRule(k, j, st, ord) ==
    IF Reached(k, st) /\ is_antipattern_enabled(RuleOrder[k])
       /\ st.res[RuleOrder[k]].status = "ok"
    THEN Merge(RuleOrder[k], j, st.res[RuleOrder[k]], ord)
    ELSE j

\* classes.py 116-261: the twelve blocks in order, from the k-th on.
RECURSIVE RunRules(_, _, _, _)
RunRules(k, j, st, ord) ==
    IF k > Len(RuleOrder) THEN j
    ELSE RunRules(k + 1, TryRule(k, j, st, ord), st, ord)

\* Mutant: the handler starts the job's fields afresh.
StatementExcept_ResetsJob(c) == [c EXCEPT !.exc = FALSE, !.job = NewJob]

\* Mutant: no handler around the statement, the error leaves the method.
StatementExcept_Missing(c) == c

\* classes.py 263-264: the except clause of the statement's try, entered
\* with the fields as context c holds them; it prints and the loop goes on.
StatementExcept(c) == [c EXCEPT !.exc = FALSE]

\* classes.py 110-264: the body of the for loop on statement st.  The result
\* is the job's fields, the rules called, and exc: an error left the body.
ProcessStatement(j, st, ord) ==
    IF ContainsDeclare(st) THEN [job |-> j, ran |-> {}, exc |-> FALSE]
    ELSE IF st.parse_error
         THEN StatementExcept([job |-> j, ran |-> {}, exc |-> TRUE])
    ELSE IF st.udf \/ st.set_item THEN [job |-> j, ran |-> {}, exc |-> FALSE]
    ELSE IF \E r \in Rules : BlockEscapes(r, st)
         THEN StatementExcept([job |-> RunRules(1, j, st, ord),
                               ran |-> Called(st), exc |-> TRUE])
    ELSE [job |-> RunRules(1, j, st, ord), ran |-> Called(st), exc |-> FALSE]

\* The elements job.available_partitions can hold, and the orders in which
\* a Python set of them can be listed.
PartitionItems == {PartitionEvidence(t) : t \in Tables} \cup {PartitionPlaceholder}

SetOrders == Permutations_(PartitionItems)

\* The set is built only when check_partition_used reports a table
\* (classes.py 121-129); otherwise there is no order to choose.
OrdersFor(st) ==
    IF st.res["partition_used"].flag THEN SetOrders
    ELSE {CHOOSE ord \in SetOrders : TRUE}

(***************************************************************************)
(* Part 2 state is frozen while the job loop runs, and conversely.         *)
(***************************************************************************)
NoCatalog == << >>

RulesIdle ==
    /\ ast = << >>
    /\ verdict = << >>

ResolverIdle ==
    /\ queried_tables = << >>
    /\ columns_dict = NoCatalog
    /\ key_order = << >>
    /\ row_count = 0
    /\ ctes = {}
    /\ refs = << >>
    /\ rpc = "idle"

JobIdle ==
    /\ job = NewJob
    /\ antipatterns = DefaultAntipatterns
    /\ n = 0
    /\ i = 0
    /\ pc = "idle"
    /\ cur = NoStatement
    /\ ran = {}
    /\ jobs = << >>

(***************************************************************************)
(* Specification Spec: Job.check_antipatterns on one job.                  *)
(***************************************************************************)
Init ==
    /\ job = NewJob
    /\ antipatterns = DefaultAntipatterns
    /\ n \in 0..MaxStatements
    /\ i = 0
    /\ pc = "loop"
    /\ cur = NoStatement
    /\ ran = {}
    /\ jobs = << >>
    /\ ResolverIdle
    /\ RulesIdle

\* for i in statements: one statement, whatever it is.
CheckStatement ==
    /\ pc = "loop"
    /\ i < n
    /\ i' = i + 1
    /\ \E st \in StatementInputs :
         /\ cur' = st
         /\ \E ord \in OrdersFor(st) :
              \E c \in {ProcessStatement(job, st, ord)} :
                 /\ job' = c.job
                 /\ ran' = c.ran
                 /\ pc' = IF c.exc THEN "raised" ELSE "loop"
    /\ UNCHANGED <<antipatterns, n, jobs>>
    /\ UNCHANGED resolverVars
    /\ UNCHANGED ruleVars

\* The loop is exhausted: check_antipatterns returns None.
Return ==
    /\ pc = "loop"
    /\ i = n
    /\ pc' = "done"
    /\ UNCHANGED <<job, antipatterns, n, i, cur, ran, jobs>>
    /\ UNCHANGED resolverVars
    /\ UNCHANGED ruleVars

Next == CheckStatement \/ Return

Spec == Init /\ [][Next]_vars

\* The for loop runs to its end: every pass and the return are taken.
FairSpec == Spec /\ WF_vars(Next)

(***************************************************************************)
(* Vocabulary of the claims about the job loop.                            *)
(***************************************************************************)
\* The step just taken was a pass of the for loop.
LoopPass == i' = i + 1

\* Rule r was called on statement st and returned "triggered".
ResultOn(r, st, called) ==
    r \in called /\ st.res[r].status = "ok" /\ st.res[r].flag

\* The table names a job-level evidence list holds.
NamesIn(j, r) ==
    IF r = "partition_used"
    THEN [k \in DOMAIN j.available_partitions |-> j.available_partitions[k].table_name]
    ELSE j[ListOf(r)]

\* The job fields rule r owns.
Owned(r, j) ==
    <<j[FlagOf(r)], IF r \in EvidenceRules THEN j[ListOf(r)] ELSE << >>>>

RuleIndex(r) == CHOOSE k \in DOMAIN RuleOrder : RuleOrder[k] = r

\* C1 (monotonic OR): after every pass of the loop, each of the twelve job
\* flags equals its value before the pass OR the rule's result on the
\* statement just taken.
C1_FlagIsRunningOr ==
    [][LoopPass =>
         \A r \in Rules :
            job'[FlagOf(r)] = (job[FlagOf(r)] \/ ResultOn(r, cur', ran'))]_vars

C3_EvidenceKept ==
    [][\A r \in EvidenceRules : \A t \in Tables :
          t \in Range(NamesIn(job, r)) => t \in Range(NamesIn(job', r))]_vars

\* C4 (parse failure): a pass on a statement parse_one raises on changes no
\* job field, calls no rule and leaves the loop running, and the method
\* returns only after the last statement.
C4_ParseFailureSkips ==
    /\ [][(LoopPass /\ cur'.parse_error) =>
            (job' = job /\ ran' = {} /\ pc' = "loop")]_vars
    /\ [](pc = "done" => i = n)

C4_Witness ==
    /\ cur.parse_error
    /\ i = 2
    /\ job.partition_not_used
    /\ job.select_star
    /\ job.available_partitions = <<PartitionEvidence(TablePool[1])>>

\* C5 (isolation): when rule r1 raises on a statement the loop evaluates,
\* every other enabled rule r2 is still called on it, and the fields r2 owns
\* end as they would have, had r1 returned instead of raising.
C5_RuleIsolation ==
    [][(LoopPass /\ ran' # {}) =>
         \A r1 \in {r \in EnabledRules : cur'.res[r] = Raises} :
            /\ EnabledRules \subseteq ran'
            /\ \A o \in (ActiveOutcomes(r1) \cup {Quiet}) \ {Raises} :
                 \A st \in {[cur' EXCEPT !.res[r1] = o]} :
                    \E ord \in OrdersFor(st) :
                       \E alt \in {ProcessStatement(job, st, ord).job} :
                          \A r2 \in EnabledRules \ {r1} :
                             Owned(r2, job') = Owned(r2, alt)]_vars

C5_Witness ==
    \E r1, r2 \in Rules :
        /\ RuleIndex(r1) < RuleIndex(r2)
        /\ cur.res[r1] = Raises
        /\ cur.res[r2].flag
        /\ ran = Rules
        /\ job[FlagOf(r2)]
        /\ r2 \in EvidenceRules
        /\ job[ListOf(r2)] # << >>

\* C6 (termination): the method returns after taking every statement once,
\* in order, and no error leaves it.
C6_Terminates ==
    /\ <>(pc = "done" /\ i = n)
    /\ [](pc # "raised")
    /\ [][i' = i \/ (i' = i + 1 /\ i < n)]_vars

C6_Witness ==
    /\ pc = "done"
    /\ i = n
    /\ n = 2
    /\ \E r \in Rules : cur.res[r] = Raises /\ r \in ran

\* C7 (skipping): a pass calls no rule and changes no job field exactly
\* when the statement is a DECLARE statement or its tree holds a
\* user-defined function or a SET item; any other statement that parses is
\* evaluated by every enabled rule.
C7_SkipsExactlyNonAnalyzable ==
    [][LoopPass =>
         IF cur'.text = "declare_statement" \/ cur'.udf \/ cur'.set_item
         THEN ran' = {} /\ job' = job
         ELSE ~cur'.parse_error => ran' = EnabledRules]_vars

(***************************************************************************)
(* Part 2: functions.get_queried_tables.                                   *)
(*                                                                         *)
(* Names (identifiers, qualified table names, aliases) are sequences of    *)
(* one-character strings, so that "in" (substring), replace and sort work  *)
(* on them as they do on Python strings.  None is the empty sequence.      *)
(***************************************************************************)
\* Largest number of Table nodes the walk over Join and From clauses visits.
MaxRefs == 2

None == << >>

\* A column name that is None.
NoColumn == "None"

Dot == <<".">>

Star == "*"

\* ord(ch) for the characters the names are made of.
CodePoint(ch) ==
    CASE ch = "*" -> 42
      [] ch = "." -> 46
      [] ch = "1" -> 49
      [] ch = "2" -> 50
      [] ch = "c" -> 99
      [] ch = "d" -> 100
      [] ch = "e" -> 101
      [] ch = "f" -> 102
      [] ch = "p" -> 112

\* a < b for Python strings: the first differing character decides, a
\* proper prefix comes first.
RECURSIVE StrLess(_, _)
StrLess(a, b) ==
    IF b = << >> THEN FALSE
    ELSE IF a = << >> THEN TRUE
    ELSE IF Head(a) # Head(b) THEN CodePoint(Head(a)) < CodePoint(Head(b))
    ELSE StrLess(Tail(a), Tail(b))

\* sub in s
IsSubstring(sub, s) ==
    \E off \in 0..(Len(s) - Len(sub)) :
        \A k \in 1..Len(sub) : s[off + k] = sub[k]

\* name.replace("*", "")
RemoveStars(name) == SelectSeq(name, LAMBDA ch : ch # Star)

\* "*" in name
HasStar(name) == Star \in Range(name)

\* Insert name into the sorted list sorted.
RECURSIVE InsertSorted(_, _)
InsertSorted(name, sorted) ==
    IF sorted = << >> THEN <<name>>
    ELSE IF StrLess(name, Head(sorted)) THEN <<name>> \o sorted
    ELSE <<Head(sorted)>> \o InsertSorted(name, Tail(sorted))

\* Mutant: the list is left in the catalog's iteration order.
SortNames_Skipped(list) == list

\* table_list.sort()
RECURSIVE SortNames(_)
SortNames(list) ==
    IF list = << >> THEN << >>
    ELSE InsertSorted(Head(list), SortNames(Tail(list)))

(***************************************************************************)
(* The inputs: Table nodes and catalogs.                                   *)
(***************************************************************************)
\* A sqlglot Table node: its catalog, db, name and alias identifiers.
TableNode(catalog, db, this, alias) ==
    [catalog |-> catalog, db |-> db, this |-> this, alias |-> alias]

AliasPool == {None, <<"c">>}

\* p.d.e1, p.d.e*, d.e*, d.e1, p.d.f and the unqualified c, each bare or aliased.
RefPool ==
    {TableNode(q[1], q[2], q[3], a) :
        q \in { << <<"p">>, <<"d">>, <<"e", "1">> >>,
                << <<"p">>, <<"d">>, <<"e", "*">> >>,
                << None, <<"d">>, <<"e", "*">> >>,
                << None, <<"d">>, <<"e", "1">> >>,
                << <<"p">>, <<"d">>, <<"f">> >>,
                << None, None, <<"c">> >> },
        a \in AliasPool}

\* The qualified names the catalog can list, with their short table names.
KeyPool == { <<"p", ".", "d", ".", "e", "1">>,
             <<"p", ".", "d", ".", "e", "2">>,
             <<"p", ".", "d", ".", "f">> }

ShortName(key) == SubSeq(key, 5, Len(key))

\* One catalog row: row count, partition column, datetime columns.
Meta(rows, part, dates) ==
    [total_rows |-> rows, partitioned_column |-> part, datetime_columns |-> dates]

MetaChoices ==
    { Meta(1, NoColumn, << >>),
      Meta(1, "dt", <<"dt">>),
      Meta(2, "ts", <<"ts", "created_at">>),
      Meta(2, NoColumn, <<"created_at">>) }

\* The catalogs: any subset of KeyPool, any row for each key.
Catalogs ==
    UNION {[K -> MetaChoices] : K \in SUBSET KeyPool}

\* columns_dict[k].get("table")
TableOf(k) == ShortName(k)

\* The row_count argument get_queried_tables is called with.
RowThreshold == 2

(***************************************************************************)
(* get_alias_and_table_name_from_table (functions.py 226-252).             *)
(***************************************************************************)
full_table_name_of(t) ==
    IF t.db = None THEN None
    ELSE IF t.catalog # None
         THEN t.catalog \o Dot \o (t.db \o Dot \o t.this)
         ELSE t.db \o Dot \o t.this

alias_of(t) == IF t.db = None THEN None ELSE t.alias

(***************************************************************************)
(* get_queried_tables (functions.py 161-223), one Table node at a time.    *)
(***************************************************************************)
\* functions.py 183-188: the catalog keys the name selects, in the order
\* columns_dict.keys() lists them.
table_list_for(full_table_name, order) ==
    IF HasStar(full_table_name)
    THEN SelectSeq(order, LAMBDA k : IsSubstring(RemoveStars(full_table_name), k))
    ELSE SelectSeq(order, LAMBDA k : full_table_name = k)

\* functions.py 191-193: total_rows += columns_dict[k]["total_rows"]
RECURSIVE SumRows(_, _)
SumRows(list, dict) ==
    IF list = << >> THEN 0
    ELSE dict[Head(list)].total_rows + SumRows(Tail(list), dict)

\* Mutant: only tables strictly above the threshold are admitted.
MeetsThreshold_Strict(total_rows, threshold) == total_rows > threshold

\* functions.py 202, 213: total_rows >= row_count
MeetsThreshold(total_rows, threshold) == total_rows >= threshold

\* functions.py 190-201: the values the loop over the sorted table_list
\* leaves behind: the summed rows, and the last key's metadata.
Resolved(full_table_name, list, dict) ==
    LET sorted == SortNames(list)
        last == sorted[Len(sorted)]
    IN [full_table_name |-> full_table_name,
        total_rows |-> SumRows(sorted, dict),
        partitioned_column |-> dict[last].partitioned_column,
        available_datetime_columns |-> Len(dict[last].datetime_columns),
        available_datetime_columns_list |-> dict[last].datetime_columns,
        table |-> TableOf(last)]

\* functions.py 203-211 and 214-222: the dictionary entry.
Entry(r, is_alias) ==
    [full_table_name |-> r.full_table_name,
     total_rows |-> r.total_rows,
     partitioned_column |-> r.partitioned_column,
     available_datetime_columns |-> r.available_datetime_columns,
     available_datetime_columns_list |-> r.available_datetime_columns_list,
     is_alias |-> is_alias,
     table |-> r.table]

\* Mutant: the alias is entered without the row-count test.
AddEntries_AliasUnchecked(qt, r, alias, threshold) ==
    LET withName ==
            IF r.full_table_name \notin DOMAIN qt
               /\ MeetsThreshold(r.total_rows, threshold)
            THEN qt @@ (r.full_table_name :> Entry(r, FALSE))
            ELSE qt
    IN IF alias # None /\ alias \notin DOMAIN withName
       THEN withName @@ (alias :> Entry(r, TRUE))
       ELSE withName

\* functions.py 202-222: the entries one resolved reference adds to qt.
AddEntries(qt, r, alias, threshold) ==
    LET withName ==
            IF r.full_table_name \notin DOMAIN qt
               /\ MeetsThreshold(r.total_rows, threshold)
            THEN qt @@ (r.full_table_name :> Entry(r, FALSE))
            ELSE qt
    IN IF alias # None /\ alias \notin DOMAIN withName
          /\ MeetsThreshold(r.total_rows, threshold)
       THEN withName @@ (alias :> Entry(r, TRUE))
       ELSE withName

\* functions.py 181-222: the body of the loop for Table node t.
VisitTableNode(qt, t, dict, order, threshold) ==
    IF t.db = None THEN qt
    ELSE LET list == table_list_for(full_table_name_of(t), order)
         IN IF Len(list) > 0
            THEN AddEntries(qt, Resolved(full_table_name_of(t), list, dict),
                            alias_of(t), threshold)
            ELSE qt

(***************************************************************************)
(* Specification SpecResolver: one call of get_queried_tables on a         *)
(* statement that defines the CTEs ctes, against a catalog whose keys are  *)
(* listed in key_order.                                                    *)
(***************************************************************************)
CteChoices == {{}, {<<"c">>}}

InitResolver ==
    /\ columns_dict \in Catalogs
    /\ key_order \in Permutations_(DOMAIN columns_dict)
    /\ row_count = RowThreshold
    /\ ctes \in CteChoices
    /\ queried_tables = << >>
    /\ refs = << >>
    /\ rpc = "walk"
    /\ JobIdle
    /\ RulesIdle

\* The walk over the Join and From clauses reaches one more Table node.
VisitTable ==
    /\ rpc = "walk"
    /\ Len(refs) < MaxRefs
    /\ \E t \in RefPool :
         /\ refs' = Append(refs, t)
         /\ queried_tables' =
               VisitTableNode(queried_tables, t, columns_dict, key_order, row_count)
    /\ UNCHANGED <<columns_dict, key_order, row_count, ctes, rpc>>
    /\ UNCHANGED jobVars
    /\ UNCHANGED ruleVars

\* The walk is over: return queried_tables.
ReturnTables ==
    /\ rpc = "walk"
    /\ rpc' = "returned"
    /\ UNCHANGED <<queried_tables, columns_dict, key_order, row_count, ctes, refs>>
    /\ UNCHANGED jobVars
    /\ UNCHANGED ruleVars

NextResolver == VisitTable \/ ReturnTables

SpecResolver == InitResolver /\ [][NextResolver]_vars

(***************************************************************************)
(* Vocabulary of the claims about the resolver, stated on the catalog as a *)
(* set of rows, without reference to the order of its keys.               *)
(***************************************************************************)
\* The catalog keys a qualified name stands for.
Matching(name) ==
    IF HasStar(name)
    THEN {k \in DOMAIN columns_dict : IsSubstring(RemoveStars(name), k)}
    ELSE {k \in DOMAIN columns_dict : k = name}

\* The sum of the row counts of the keys in K.
RECURSIVE RowsOf(_)
RowsOf(K) ==
    IF K = {} THEN 0
    ELSE LET k == CHOOSE x \in K : TRUE
         IN columns_dict[k].total_rows + RowsOf(K \ {k})

\* The lexicographically last key of K.
LastOf(K) == CHOOSE k \in K : \A other \in K : other = k \/ StrLess(other, k)

\* Table node t is one the resolver admits.
Admissible(t) ==
    /\ t.db # None
    /\ Matching(full_table_name_of(t)) # {}
    /\ RowsOf(Matching(full_table_name_of(t))) >= row_count

\* C8 (resolver soundness): no key of the symbol table is the alias of a CTE
\* the statement defines.
C8_NoCteKey == \A q \in DOMAIN queried_tables : q \notin ctes

\* C9 (admission): every entry stems from a visited Table node that has a
\* dataset qualifier, matches a catalog key and whose summed rows reach
\* row_count; a node that is unqualified, matches nothing or stays below
\* row_count has no entry under its name or its alias; a node whose rows
\* reach row_count, also exactly, has its entry.
C9_Admission ==
    /\ \A q \in DOMAIN queried_tables :
          \E k \in DOMAIN refs :
             /\ Admissible(refs[k])
             /\ queried_tables[q].full_table_name = full_table_name_of(refs[k])
             /\ queried_tables[q].total_rows =
                   RowsOf(Matching(full_table_name_of(refs[k])))
             /\ IF queried_tables[q].is_alias
                THEN q = refs[k].alias
                ELSE q = full_table_name_of(refs[k])
    /\ \A k \in DOMAIN refs :
          IF Admissible(refs[k])
          THEN /\ full_table_name_of(refs[k]) \in DOMAIN queried_tables
               /\ ~queried_tables[full_table_name_of(refs[k])].is_alias
               /\ refs[k].alias # None => refs[k].alias \in DOMAIN queried_tables
          ELSE /\ full_table_name_of(refs[k]) \notin DOMAIN queried_tables
               /\ \A q \in DOMAIN queried_tables :
                     /\ queried_tables[q].full_table_name # full_table_name_of(refs[k])
                     /\ queried_tables[q].full_table_name # refs[k].this

C9_Witness ==
    /\ rpc = "returned"
    /\ \E a, b \in DOMAIN refs :
          /\ Admissible(refs[a])
          /\ RowsOf(Matching(full_table_name_of(refs[a]))) = row_count
          /\ refs[a].alias # None
          /\ refs[a].alias \in DOMAIN queried_tables
          /\ refs[b].db # None
          /\ Matching(full_table_name_of(refs[b])) # {}
          /\ ~Admissible(refs[b])
          /\ refs[b].alias # None

\* C10 (wildcards): the entry of a wildcard name holds the sum of the rows
\* of all catalog keys containing the text before the wildcard, and the
\* partition column and datetime columns of the lexicographically last of
\* them, whatever the order in which the catalog lists its keys.
C10_WildcardResolution ==
    \A q \in DOMAIN queried_tables :
        LET e == queried_tables[q]
            M == Matching(e.full_table_name)
        IN HasStar(e.full_table_name) =>
              /\ e.total_rows = RowsOf(M)
              /\ e.partitioned_column = columns_dict[LastOf(M)].partitioned_column
              /\ e.available_datetime_columns_list =
                    columns_dict[LastOf(M)].datetime_columns
              /\ e.available_datetime_columns =
                    Len(columns_dict[LastOf(M)].datetime_columns)

C10_Witness ==
    /\ rpc = "returned"
    /\ \E q \in DOMAIN queried_tables :
          LET M == Matching(queried_tables[q].full_table_name)
          IN /\ HasStar(queried_tables[q].full_table_name)
             /\ Cardinality(M) = 2
             /\ \E a, b \in DOMAIN key_order :
                   /\ a < b
                   /\ key_order[a] \in M
                   /\ key_order[b] \in M
                   /\ StrLess(key_order[b], key_order[a])
                   /\ columns_dict[key_order[a]].partitioned_column
                         # columns_dict[key_order[b]].partitioned_column
             /\ queried_tables[q].total_rows = 3

(***************************************************************************)
(* Part 3 (specification SpecRules): the rule functions of                 *)
(* src/src/bq_sql_antipattern_checker/antipatterns.py, each applied to the *)
(* tree parse_one returns.                                                 *)
(*                                                                         *)
(* A tree node is a record: its sqlglot class (type), the name of the      *)
(* argument of its parent that holds it (key), its text when it is an      *)
(* Identifier, Literal, Var or DataType (val), and its children in the     *)
(* order of the parent's args (kids).  Expression.args.get(k) is the child *)
(* with key k; find_all walks the tree breadth first, the node itself      *)
(* included.                                                               *)
(***************************************************************************)
Node(type, val, kids) == [type |-> type, key |-> "", val |-> val, kids |-> kids]

\* The value of an argument that is absent.
NoNode == Node("None", None, << >>)

\* child as the argument key of its parent; nothing when the argument is absent.
Arg(key, child) ==
    IF child = NoNode THEN << >> ELSE << [child EXCEPT !.key = key] >>

\* children as the list argument key of their parent.
ArgList(key, children) ==
    [k \in DOMAIN children |-> [children[k] EXCEPT !.key = key]]

\* node.args.get(key), for an argument holding one node.
ArgOf(node, key) ==
    IF \E k \in DOMAIN node.kids : node.kids[k].key = key
    THEN node.kids[CHOOSE k \in DOMAIN node.kids : node.kids[k].key = key]
    ELSE NoNode

\* node.args.get(key), for an argument holding a list of nodes.
ArgsOf(node, key) == SelectSeq(node.kids, LAMBDA c : c.key = key)

\* Expression.walk(bfs=True), started with the nodes in queue.
RECURSIVE Bfs(_)
Bfs(queue) ==
    IF queue = << >> THEN << >>
    ELSE <<Head(queue)>> \o Bfs(Tail(queue) \o Head(queue).kids)

\* list(node.find_all(*types))
find_all(node, types) == SelectSeq(Bfs(<<node>>), LAMBDA x : x.type \in types)

\* node.find(*types), NoNode for None
find(node, types) ==
    LET found == find_all(node, types)
    IN IF found = << >> THEN NoNode ELSE Head(found)

\* The walk again, each node with the nearest Select above it
\* (Expression.parent_select); queue holds <<node, parent_select>> pairs.
RECURSIVE BfsWithSelect(_)
BfsWithSelect(queue) ==
    IF queue = << >> THEN << >>
    ELSE LET x == Head(queue)[1]
             below == IF x.type = "Select" THEN x ELSE Head(queue)[2]
         IN <<Head(queue)>>
            \o BfsWithSelect(Tail(queue) \o [k \in DOMAIN x.kids |-> <<x.kids[k], below>>])

\* [(f, f.parent_select) for f in ast.find_all(exp.From)]
from_statements(root) ==
    SelectSeq(BfsWithSelect(<< <<root, NoNode>> >>), LAMBDA p : p[1].type = "From")

(***************************************************************************)
(* The trees parse_one(sql, dialect="bigquery") builds.                    *)
(***************************************************************************)
Identifier(text) == Node("Identifier", text, << >>)

\* a column, bare (table = None) or qualified by a table name or alias
Column(table, name) ==
    Node("Column", None,
         Arg("this", Identifier(name))
         \o (IF table = None THEN << >> ELSE Arg("table", Identifier(table))))

Literal(text) == Node("Literal", text, << >>)

StarNode == Node("Star", None, << >>)

\* COUNT(x)
Count(x) == Node("Count", None, Arg("this", x))

\* COUNT(DISTINCT x)
CountDistinct(x) ==
    Node("Count", None, Arg("this", Node("Distinct", None, ArgList("expressions", <<x>>))))

\* MIN(x)
Min(x) == Node("Min", None, Arg("this", x))

TableAlias(name) == Node("TableAlias", None, Arg("this", Identifier(name)))

\* The Table node of the reference t (a TableNode record).
Table(t) ==
    Node("Table", None,
         Arg("this", Identifier(t.this))
         \o (IF t.db = None THEN << >> ELSE Arg("db", Identifier(t.db)))
         \o (IF t.catalog = None THEN << >> ELSE Arg("catalog", Identifier(t.catalog)))
         \o (IF t.alias = None THEN << >> ELSE Arg("alias", TableAlias(t.alias))))

\* (SELECT ...), as a source or as an operand
Subquery(select) == Node("Subquery", None, Arg("this", select))

From(source) == Node("From", None, Arg("this", source))

Join(source, on) == Node("Join", None, Arg("this", source) \o Arg("on", on))

Where(condition) == Node("Where", None, Arg("this", condition))

Binary(type, left, right) == Node(type, None, Arg("this", left) \o Arg("expression", right))

\* x IN (a, b)
InList(x, values) == Node("In", None, Arg("this", x) \o ArgList("expressions", values))

\* x IN (SELECT ...)
InQuery(x, select) == Node("In", None, Arg("this", x) \o Arg("query", Subquery(select)))

\* WITH alias AS (select)
CTE(alias, select) == Node("CTE", None, Arg("this", select) \o Arg("alias", TableAlias(alias)))

With(ctes_) == Node("With", None, ArgList("expressions", ctes_))

\* A Select node.  a gives its clauses: expressions (a list), distinct,
\* with, from, joins (a list), where, group, order, limit; NoNode or the
\* empty list for a clause the statement does not have.
Select(a) ==
    Node("Select", None,
         ArgList("expressions", a.expressions)
         \o Arg("distinct", a.distinct)
         \o Arg("from", a.from)
         \o ArgList("joins", a.joins)
         \o Arg("where", a.where)
         \o Arg("group", a.group)
         \o Arg("order", a.order)
         \o Arg("limit", a.limit)
         \o Arg("with", a.with))

\* SELECT expressions FROM source, without any other clause
Plain(expressions, source) ==
    [expressions |-> expressions, distinct |-> NoNode, with |-> NoNode,
     from |-> IF source = NoNode THEN NoNode ELSE From(source), joins |-> << >>,
     where |-> NoNode, group |-> NoNode, order |-> NoNode, limit |-> NoNode]

Distinct == Node("Distinct", None, << >>)

Group(x) == Node("Group", None, ArgList("expressions", <<x>>))

Order(x) == Node("Order", None, ArgList("expressions", <<Node("Ordered", None, Arg("this", x))>>))

Limit(count) == Node("Limit", None, Arg("expression", Literal(count)))

(***************************************************************************)
(* The rules (antipatterns.py).                                            *)
(***************************************************************************)
\* Mutant: a Count in the select no longer excuses the star.
check_select_star_CountIgnored(root) ==
    \E k \in DOMAIN from_statements(root) :
        LET f == from_statements(root)[k][1]
            parent_select == from_statements(root)[k][2]
        IN /\ parent_select # NoNode
           /\ find(parent_select, {"Star"}) # NoNode
           /\ ArgOf(ArgOf(f, "this"), "db") # NoNode

\* antipatterns.py 38-52
check_select_star(root) ==
    \E k \in DOMAIN from_statements(root) :
        LET f == from_statements(root)[k][1]
            parent_select == from_statements(root)[k][2]
        IN /\ parent_select # NoNode
           /\ find(parent_select, {"Star"}) # NoNode
           /\ find(parent_select, {"Count"}) = NoNode
           /\ ArgOf(f, "this") # NoNode
           /\ ArgOf(ArgOf(f, "this"), "db") # NoNode

\* Mutant: an Order or Limit anywhere in the statement counts.
check_order_without_limit_AnyDepth(root) ==
    find(root, {"Order"}) # NoNode /\ find(root, {"Limit"}) = NoNode

\* antipatterns.py 71-79
check_order_without_limit(root) ==
    ArgOf(root, "order") # NoNode /\ ArgOf(root, "limit") = NoNode

\* antipatterns.py 82-94
check_regexp_in_where(root) ==
    LET where_statement == ArgOf(root, "where")
    IN /\ where_statement # NoNode
       /\ \E regex \in {"RegexpLike", "RegexpReplace", "RegexpExtract"} :
             find(where_statement, {regex}) # NoNode

\* The words sqlglot writes for a node itself when it generates SQL:
\* keywords and function names in upper case, identifiers and literals as
\* they are.
sql_word(x) ==
    CASE x.type \in {"Identifier", "Literal", "Var"} -> x.val
      [] x.type = "In" -> <<"I", "N">>
      [] x.type = "Min" -> <<"M", "I", "N">>
      [] x.type = "Count" -> <<"C", "O", "U", "N", "T">>
      [] x.type = "Distinct" -> <<"D", "I", "S", "T", "I", "N", "C", "T">>
      [] x.type = "Select" -> <<"S", "E", "L", "E", "C", "T">>
      [] x.type = "From" -> <<"F", "R", "O", "M">>
      [] x.type = "Join" -> <<"J", "O", "I", "N">>
      [] x.type = "Where" -> <<"W", "H", "E", "R", "E">>
      [] x.type = "Group" -> <<"G", "R", "O", "U", "P", " ", "B", "Y">>
      [] x.type = "And" -> <<"A", "N", "D">>
      [] x.type = "Like" -> <<"L", "I", "K", "E">>
      [] x.type = "Between" -> <<"B", "E", "T", "W", "E", "E", "N">>
      [] x.type = "RegexpLike" -> <<"R", "E", "G", "E", "X", "P", "_", "C", "O", "N", "T", "A", "I", "N", "S">>
      [] x.type = "EQ" -> <<"=">>
      [] x.type = "GT" -> <<">">>
      [] x.type = "Star" -> <<"*">>
      [] x.type = "GTE" -> <<">", "=">>
      [] x.type = "Sub" -> <<"-">>
      [] x.type = "Mul" -> <<"*">>
      [] x.type = "DateSub" -> <<"D", "A", "T", "E", "_", "S", "U", "B", " ", "I", "N", "T", "E", "R", "V", "A", "L">>
      [] x.type = "CurrentDate" -> <<"C", "U", "R", "R", "E", "N", "T", "_", "D", "A", "T", "E">>
      [] x.type = "Cast" -> <<"C", "A", "S", "T", " ", "A", "S">>
      [] x.type = "DataType" -> x.val
      [] OTHER -> << >>

\* The words of the nodes in list, each followed by a blank.
RECURSIVE JoinWords(_)
JoinWords(list) ==
    IF list = << >> THEN << >>
    ELSE sql_word(Head(list)) \o <<" ">> \o JoinWords(Tail(list))

\* str(node), up to the order of its words and to punctuation: "IN" in
\* str(node) is decided by the words alone, since what separates two
\* words is never a letter.
sql_text(x) == JoinWords(Bfs(<<x>>))

\* antipatterns.py 55-68
check_semi_join_without_aggregation(root) ==
    \E k \in DOMAIN find_all(root, {"Where"}) :
        LET w == find_all(root, {"Where"})[k]
        IN /\ IsSubstring(<<"I", "N">>, sql_text(w))
           /\ \E j \in DOMAIN find_all(w, {"Select"}) :
                 LET s == find_all(w, {"Select"})[j]
                 IN Len(find_all(s, {"Distinct"})) + Len(find_all(s, {"Group"})) = 0

\* type(node).__name__ as text
class_name(type) ==
    CASE type = "And" -> <<"A", "n", "d">>
      [] type = "Like" -> <<"L", "i", "k", "e">>
      [] type = "EQ" -> <<"E", "Q">>
      [] type = "GT" -> <<"G", "T">>
      [] type = "LT" -> <<"L", "T">>
      [] type = "In" -> <<"I", "n">>
      [] type = "Column" -> <<"C", "o", "l", "u", "m", "n">>
      [] type = "Identifier" -> <<"I", "d", "e", "n", "t", "i", "f", "i", "e", "r">>
      [] type = "Literal" -> <<"L", "i", "t", "e", "r", "a", "l">>
      [] type = "Boolean" -> <<"B", "o", "o", "l", "e", "a", "n">>
      [] type = "RegexpLike" -> <<"R", "e", "g", "e", "x", "p", "L", "i", "k", "e">>
      [] type = "RegexpReplace" -> <<"R", "e", "g", "e", "x", "p", "R", "e", "p", "l", "a", "c", "e">>
      [] type = "RegexpExtract" -> <<"R", "e", "g", "e", "x", "p", "E", "x", "t", "r", "a", "c", "t">>
      [] type = "Subquery" -> <<"S", "u", "b", "q", "u", "e", "r", "y">>
      [] type = "Select" -> <<"S", "e", "l", "e", "c", "t">>
      [] type = "From" -> <<"F", "r", "o", "m">>
      [] type = "Table" -> <<"T", "a", "b", "l", "e">>
      [] type = "TableAlias" -> <<"T", "a", "b", "l", "e", "A", "l", "i", "a", "s">>
      [] type = "Where" -> <<"W", "h", "e", "r", "e">>
      [] type = "Star" -> <<"S", "t", "a", "r">>
      [] type = "Count" -> <<"C", "o", "u", "n", "t">>
      [] type = "Distinct" -> <<"D", "i", "s", "t", "i", "n", "c", "t">>
      [] type = "Min" -> <<"M", "i", "n">>
      [] type = "Join" -> <<"J", "o", "i", "n">>
      [] type = "GTE" -> <<"G", "T", "E">>
      [] type = "Between" -> <<"B", "e", "t", "w", "e", "e", "n">>
      [] type = "Sub" -> <<"S", "u", "b">>
      [] type = "Mul" -> <<"M", "u", "l">>
      [] type = "DateSub" -> <<"D", "a", "t", "e", "S", "u", "b">>
      [] type = "CurrentDate" -> <<"C", "u", "r", "r", "e", "n", "t", "D", "a", "t", "e">>
      [] type = "Cast" -> <<"C", "a", "s", "t">>

\* the name of an argument as text
arg_name(key) ==
    CASE key = "this" -> <<"t", "h", "i", "s">>
      [] key = "expression" -> <<"e", "x", "p", "r", "e", "s", "s", "i", "o", "n">>
      [] key = "expressions" -> <<"e", "x", "p", "r", "e", "s", "s", "i", "o", "n", "s">>
      [] key = "table" -> <<"t", "a", "b", "l", "e">>
      [] key = "query" -> <<"q", "u", "e", "r", "y">>
      [] key = "from" -> <<"f", "r", "o", "m">>
      [] key = "where" -> <<"w", "h", "e", "r", "e">>
      [] key = "db" -> <<"d", "b">>
      [] key = "catalog" -> <<"c", "a", "t", "a", "l", "o", "g">>
      [] key = "alias" -> <<"a", "l", "i", "a", "s">>
      [] key = "distinct" -> <<"d", "i", "s", "t", "i", "n", "c", "t">>
      [] key = "joins" -> <<"j", "o", "i", "n", "s">>
      [] key = "on" -> <<"o", "n">>
      [] key = "low" -> <<"l", "o", "w">>
      [] key = "high" -> <<"h", "i", "g", "h">>
      [] key = "unit" -> <<"u", "n", "i", "t">>
      [] key = "to" -> <<"t", "o">>

Smallest(S) == CHOOSE x \in S : \A y \in S : x <= y

\* s.find(sub): the lowest index at which sub starts in s, -1 when absent
Find(sub, s) ==
    LET hits == {off \in 0..(Len(s) - Len(sub)) : SubSeq(s, off + 1, off + Len(sub)) = sub}
    IN IF hits = {} THEN -1 ELSE Smallest(hits)

\* s[n:]
Drop(s, count) == SubSeq(s, count + 1, Len(s))

\* The arguments that hold a list of nodes.
ListArgs == {"expressions", "joins"}

\* repr(node).replace(" ", "").replace("\n", ""): the class name, then
\* the arguments as name=value in the order of args; a list argument
\* shows as name=[value,value].
RECURSIVE repr_(_)
RECURSIVE repr_args(_, _)
repr_args(kids, k) ==
    IF k > Len(kids) THEN << >>
    ELSE LET c == kids[k]
             first == k = 1 \/ kids[k - 1].key # c.key
             last == k = Len(kids) \/ kids[k + 1].key # c.key
         IN (IF k > 1 THEN <<",">> ELSE << >>)
            \o (IF c.key \in ListArgs
                THEN (IF first THEN arg_name(c.key) \o <<"=", "[">> ELSE << >>)
                     \o repr_(c) \o (IF last THEN <<"]">> ELSE << >>)
                ELSE arg_name(c.key) \o <<"=">> \o repr_(c))
            \o repr_args(kids, k + 1)

repr_(x) ==
    CASE x.type = "Identifier" -> <<"I", "d", "e", "n", "t", "i", "f", "i", "e", "r", "(", "t", "h", "i", "s", "=">> \o x.val \o <<",", "q", "u", "o", "t", "e", "d", "=", "F", "a", "l", "s", "e", ")">>
      [] x.type = "Literal" ->
            <<"L", "i", "t", "e", "r", "a", "l", "(", "t", "h", "i", "s", "=">> \o x.val \o <<",", "i", "s", "_", "s", "t", "r", "i", "n", "g", "=">>
            \o (IF \A k \in DOMAIN x.val : x.val[k] \in {"0", "1", "2", "3", "4", "5", "6", "7", "8", "9"}
                THEN <<"F", "a", "l", "s", "e">> ELSE <<"T", "r", "u", "e">>) \o <<")">>
      [] x.type = "Boolean" -> <<"B", "o", "o", "l", "e", "a", "n", "(", "t", "h", "i", "s", "=">> \o x.val \o <<")">>
      [] x.type = "Var" -> <<"V", "a", "r", "(", "t", "h", "i", "s", "=">> \o x.val \o <<")">>
      [] x.type = "DataType" -> <<"D", "a", "t", "a", "T", "y", "p", "e", "(", "t", "h", "i", "s", "=", "T", "y", "p", "e", ".">> \o x.val \o <<",", "n", "e", "s", "t", "e", "d", "=", "F", "a", "l", "s", "e", ")">>
      [] OTHER -> class_name(x.type) \o <<"(">> \o repr_args(x.kids, 1) \o <<")">>

\* repr(where_statement.args), blanks and newlines removed
string_version_of(where_statement) ==
    <<"{", "'", "t", "h", "i", "s", "'", ":">> \o repr_(ArgOf(where_statement, "this")) \o <<"}">>

\* antipatterns.py 116-146, on string_version
like_before_in_text(string_version) ==
    LET one_eq_one_starter ==
            Find(<<"E", "Q", "(", "t", "h", "i", "s", "=", "L", "i", "t", "e", "r", "a", "l", "(", "t", "h", "i", "s", "=", "1", ",", "i", "s", "_", "s", "t", "r", "i", "n", "g", "=", "F", "a", "l", "s", "e", ")", ",", "e", "x", "p", "r", "e", "s", "s", "i", "o", "n", "=", "L", "i", "t", "e", "r", "a", "l", "(", "t", "h", "i", "s", "=", "1">>, string_version)
        bool_starter == Find(<<"t", "h", "i", "s", "=", "B", "o", "o", "l", "e", "a", "n", "(", "t", "h", "i", "s", "=", "T", "r", "u", "e", ")">>, string_version)
        index_starter == IF one_eq_one_starter + bool_starter > 0
                         THEN one_eq_one_starter + bool_starter ELSE 0
        rest == Drop(string_version, index_starter)
        like_clause == Find(<<"L", "i", "k", "e">>, rest)
        regexp_clause == Find(<<"R", "e", "g", "e", "x", "p">>, rest)
        less_selective_clause_index ==
            IF like_clause > -1
            THEN IF regexp_clause > -1 THEN Smallest({like_clause, -1}) ELSE like_clause
            ELSE -1
        more_selective_clauses ==
            {Find(word, rest) : word \in {<<"G", "T">>, <<"L", "T">>, <<"E", "Q">>, <<"e", "x", "p", "r", "e", "s", "s", "i", "o", "n", "=", "I", "n">>}} \ {-1}
    IN /\ more_selective_clauses # {}
       /\ Smallest(more_selective_clauses) > less_selective_clause_index

\* antipatterns.py 97-146
check_like_before_more_selective(root) ==
    LET where_statement == ArgOf(root, "where")
    IN /\ where_statement # NoNode
       /\ find(where_statement, {"Like", "RegexpLike", "RegexpReplace", "RegexpExtract"}) # NoNode
       /\ \E string_version \in {string_version_of(where_statement)} :
             like_before_in_text(string_version)

\* str(node) for the source of a From: a table is written as its dotted
\* name, followed by AS and its alias if it has one; any other source
\* starts with a parenthesis.
sql_of_source(x) ==
    IF x.type # "Table" THEN <<"(">>
    ELSE (IF ArgOf(x, "catalog") # NoNode THEN ArgOf(x, "catalog").val \o Dot ELSE << >>)
         \o (IF ArgOf(x, "db") # NoNode THEN ArgOf(x, "db").val \o Dot ELSE << >>)
         \o ArgOf(x, "this").val
         \o (IF ArgOf(x, "alias") # NoNode
             THEN <<" ", "A", "S", " ">> \o ArgOf(ArgOf(x, "alias"), "this").val ELSE << >>)

\* cte.alias
alias_name(cte) == ArgOf(ArgOf(cte, "alias"), "this").val

\* antipatterns.py 158-164: the from_table of every Select that has a From,
\* for the Selects of each CTE of list in turn.
RECURSIVE from_tables_in(_)
from_tables_in(list) ==
    IF list = << >> THEN << >>
    ELSE LET selects == SelectSeq(find_all(Head(list), {"Select"}),
                                  LAMBDA s : ArgOf(s, "from") # NoNode)
         IN [k \in DOMAIN selects |-> sql_of_source(ArgOf(ArgOf(selects[k], "from"), "this"))]
            \o from_tables_in(Tail(list))

\* antipatterns.py 149-170
check_multiple_cte_reference(root) ==
    LET cte_values == {alias_name(cte) : cte \in
                          {c \in Range(find_all(root, {"CTE"})) : Len(find_all(c, {"From"})) > 0}}
        from_tables == from_tables_in(find_all(root, {"CTE"}))
    IN \E name \in cte_values :
          Cardinality({k \in DOMAIN from_tables : from_tables[k] = name}) >= 2

\* The TableNode record of a Table node of the tree.
table_record(t) ==
    TableNode(ArgOf(t, "catalog").val, ArgOf(t, "db").val, ArgOf(t, "this").val,
              IF ArgOf(t, "alias") = NoNode THEN None
              ELSE ArgOf(ArgOf(t, "alias"), "this").val)

\* [t for c in clauses for t in c.find_all(exp.Table)]
RECURSIVE tables_under(_)
tables_under(clauses) ==
    IF clauses = << >> THEN << >>
    ELSE find_all(Head(clauses), {"Table"}) \o tables_under(Tail(clauses))

\* [c for w in clauses for c in w.find_all(exp.Column)]
RECURSIVE columns_under(_)
columns_under(clauses) ==
    IF clauses = << >> THEN << >>
    ELSE find_all(Head(clauses), {"Column"}) \o columns_under(Tail(clauses))

\* A column name of the catalog as text; None has none.
column_text(name) ==
    CASE name = "dt" -> <<"d", "t">>
      [] name = "ts" -> <<"t", "s">>
      [] name = "created_at" -> <<"c", "r", "e", "a", "t", "e", "d", "_", "a", "t">>
      [] OTHER -> None

UpperCase == <<"A", "B", "C", "D", "E", "F", "G", "H", "I", "J", "K", "L", "M", "N", "O", "P", "Q", "R", "S", "T", "U", "V", "W", "X", "Y", "Z">>

LowerCase == <<"a", "b", "c", "d", "e", "f", "g", "h", "i", "j", "k", "l", "m", "n", "o", "p", "q", "r", "s", "t", "u", "v", "w", "x", "y", "z">>

lower_char(ch) ==
    IF ch \in Range(UpperCase)
    THEN LowerCase[CHOOSE k \in DOMAIN UpperCase : UpperCase[k] = ch]
    ELSE ch

\* s.lower()
lower(s) == [k \in DOMAIN s |-> lower_char(s[k])]

\* functions.py 255-290
get_column_and_table_name_from_column(column) ==
    LET this_ref == ArgOf(column, "this")
        table_ref == ArgOf(column, "table")
        db_ref == ArgOf(column, "db")
        catalog_ref == ArgOf(column, "catalog")
    IN [column_name |-> IF this_ref.type = "Identifier" THEN this_ref.val ELSE None,
        table_name |->
            IF table_ref = NoNode THEN None
            ELSE IF catalog_ref # NoNode
                 THEN IF db_ref # NoNode
                      THEN catalog_ref.val \o Dot \o db_ref.val \o Dot \o table_ref.val
                      ELSE table_ref.val
                 ELSE IF db_ref # NoNode THEN db_ref.val ELSE table_ref.val]

\* functions.py 321-351: the entries a table reference adds to
\* used_tables_with_partition, a dict kept as the list of its items in
\* insertion order.
add_used(used, full_table_name, alias, partition_column) ==
    LET keys(u) == {u[k].key : k \in DOMAIN u}
        entry(key, qualified) ==
            [key |-> key, full_table_name |-> full_table_name, qualified |-> qualified,
             alias |-> alias, partition_column |-> partition_column]
        withName == IF full_table_name \in keys(used) THEN used
                    ELSE Append(used, entry(full_table_name, TRUE))
    IN IF alias # None /\ alias \notin keys(withName)
       THEN Append(withName, entry(alias, FALSE))
       ELSE withName

\* functions.py 316-351: the loop body for one Table node
visit_partitioned(used, t, dict, order) ==
    LET partitioned_tables ==
            SelectSeq(order, LAMBDA k : dict[k].partitioned_column # NoColumn)
        full_table_name == full_table_name_of(table_record(t))
        matches ==
            SelectSeq(partitioned_tables,
                      LAMBDA k : IF HasStar(full_table_name)
                                 THEN IsSubstring(RemoveStars(full_table_name), k)
                                 ELSE full_table_name = k)
    IN IF ArgOf(t, "db") = NoNode \/ matches = << >> THEN used
       ELSE add_used(used, full_table_name, alias_of(table_record(t)),
                     column_text(dict[Head(matches)].partitioned_column))

RECURSIVE visit_all_partitioned(_, _, _, _)
visit_all_partitioned(used, tables, dict, order) ==
    IF tables = << >> THEN used
    ELSE visit_all_partitioned(visit_partitioned(used, Head(tables), dict, order),
                               Tail(tables), dict, order)

\* functions.py 293-352
get_partitioned_tables(root, dict, order) ==
    visit_all_partitioned(<< >>,
                          tables_under(find_all(root, {"From"}) \o find_all(root, {"Join"})),
                          dict, order)

\* antipatterns.py 196-225: the tables whose partition the column c uses
partitions_used_by(c, used) ==
    LET ref == get_column_and_table_name_from_column(c)
        same == SelectSeq(used, LAMBDA e : lower(ref.column_name) = lower(e.partition_column))
    IN IF ref.column_name = None \/ same = << >> THEN {}
       ELSE IF ref.table_name = None THEN {Head(same).full_table_name}
       ELSE {same[k].full_table_name : k \in DOMAIN same}

\* antipatterns.py 226-237: the entries not used, one per full table name
RECURSIVE unused_partitions(_, _, _)
unused_partitions(used, tables_with_partitions_used, passed) ==
    IF used = << >> THEN << >>
    ELSE LET v == Head(used)
         IN IF v.full_table_name \notin tables_with_partitions_used
               /\ v.full_table_name \notin passed
            THEN <<[table_name |-> v.full_table_name, partitioned_column |-> v.partition_column]>>
                 \o unused_partitions(Tail(used), tables_with_partitions_used,
                                      passed \cup {v.full_table_name})
            ELSE unused_partitions(Tail(used), tables_with_partitions_used, passed)

\* antipatterns.py 173-238
check_partition_used(root, dict, order) ==
    LET used_tables_with_partition == get_partitioned_tables(root, dict, order)
        columns == columns_under(find_all(root, {"Join"})) \o columns_under(find_all(root, {"Where"}))
        tables_with_partitions_used ==
            UNION {partitions_used_by(columns[k], used_tables_with_partition) : k \in DOMAIN columns}
    IN unused_partitions(used_tables_with_partition, tables_with_partitions_used, {})

Digits == <<"0", "1", "2", "3", "4", "5", "6", "7", "8", "9">>

\* str.isnumeric()
isnumeric(s) == s # << >> /\ \A k \in DOMAIN s : s[k] \in Range(Digits)

digit_value(ch) == (CHOOSE k \in DOMAIN Digits : Digits[k] = ch) - 1

\* int(s), for a numeric s
RECURSIVE int(_)
int(s) ==
    IF s = << >> THEN 0
    ELSE 10 * int(SubSeq(s, 1, Len(s) - 1)) + digit_value(s[Len(s)])

\* antipatterns.py 248-257: days[unit], for the units that count whole
\* days; the fractions of a day (HOUR, MINUTE, SECOND) are left out.
days(unit) ==
    CASE unit = <<"D", "A", "Y">> -> 1
      [] unit = <<"W", "E", "E", "K">> -> 7
      [] unit = <<"M", "O", "N", "T", "H">> -> 30
      [] unit = <<"Y", "E", "A", "R">> -> 365
      [] unit = <<"Q", "U", "A", "R", "T", "E", "R">> -> 90

\* datetime.strptime(text[:10], "%Y-%m-%d").toordinal(), up to a constant:
\* the days from the civil date 0000-03-01.
ordinal(text) ==
    LET year == int(SubSeq(text, 1, 4))
        month == int(SubSeq(text, 6, 7))
        day == int(SubSeq(text, 9, 10))
        y == IF month <= 2 THEN year - 1 ELSE year
        m == IF month <= 2 THEN month + 9 ELSE month - 3
    IN 365 * y + (y \div 4) - (y \div 100) + (y \div 400) + ((153 * m + 2) \div 5) + day - 1

\* antipatterns.py 313-323: (now - strptime(date_exp[:10])).days, None
\* for a text that is no date
days_since(date_exp, now) ==
    IF Len(date_exp) > 9 /\ IsSubstring(<<"-">>, date_exp)
    THEN <<ordinal(now) - ordinal(date_exp)>>
    ELSE None

\* antipatterns.py 284-311: length * multiplier for a literal found under
\* a date arithmetic node
date_diff_of(arithmetic, literal) ==
    LET length == int(literal.val)
        unit_expr == ArgOf(arithmetic, "unit")
        var_expr == find(arithmetic, {"Var"})
        mul_expr == find(arithmetic, {"Mul"})
        multiplier ==
            IF var_expr # NoNode THEN days(var_expr.val)
            ELSE IF mul_expr # NoNode /\ ArgOf(mul_expr, "expression") # NoNode
                    /\ ArgOf(mul_expr, "expression").val # None
                 THEN int(ArgOf(mul_expr, "expression").val)
                 ELSE IF unit_expr # NoNode THEN days(unit_expr.val) ELSE 1
    IN length * multiplier

\* antipatterns.py 279-311: date_diff after the loops over the date
\* arithmetic nodes and their literals: each numeric literal assigns it.
RECURSIVE last_date_diff(_, _, _)
last_date_diff(nodes, literals, date_diff) ==
    IF nodes = << >> THEN date_diff
    ELSE IF literals = << >>
         THEN IF Len(nodes) = 1 THEN date_diff
              ELSE last_date_diff(Tail(nodes), find_all(nodes[2], {"Literal"}), date_diff)
         ELSE last_date_diff(nodes, Tail(literals),
                             IF isnumeric(Head(literals).val)
                             THEN <<date_diff_of(Head(nodes), Head(literals))>>
                             ELSE date_diff)

\* antipatterns.py 263-270: case_check of the predicate d
case_check_of(d) ==
    LET cast_expr == find(d, {"Cast"})
    IN IF cast_expr # NoNode /\ ArgOf(cast_expr, "to") # NoNode
       THEN lower(<<"T", "y", "p", "e", ".">> \o ArgOf(cast_expr, "to").val)
       ELSE lower(find(ArgOf(d, "this"), {"Identifier"}).val)

\* antipatterns.py 272-323: date_diff of the predicate d, None when it is
\* not assigned
date_diff_in(d, now) ==
    LET arithmetic == find_all(d, {"DateSub"}) \o find_all(d, {"Sub"}) \o find_all(d, {"DateAdd"})
    IN IF \/ find(d, {"DateSub"}) # NoNode
          \/ find(d, {"Sub"}) # NoNode
          \/ (find(d, {"Neg"}) # NoNode /\ find(d, {"DateAdd"}) # NoNode)
       THEN last_date_diff(arithmetic, find_all(Head(arithmetic), {"Literal"}), None)
       ELSE IF ArgOf(d, "low") # NoNode
            THEN days_since(ArgOf(d, "low").val, now)
            ELSE IF find(ArgOf(d, "expression"), {"Literal"}) # NoNode
                 THEN days_since(find(ArgOf(d, "expression"), {"Literal"}).val, now)
                 ELSE None

\* antipatterns.py 262-326: the predicate d sets status
sets_status(d, now) ==
    /\ find(ArgOf(d, "this"), {"Identifier"}) # NoNode
    /\ \/ IsSubstring(<<"d", "a", "t", "e">>, case_check_of(d))
       \/ IsSubstring(<<"t", "i", "m", "e">>, case_check_of(d))
       \/ IsSubstring(<<"p", "a", "r", "t", "i", "t", "i", "o", "n">>, case_check_of(d))
    /\ date_diff_in(d, now) # None
    /\ date_diff_in(d, now)[1] # 0
    /\ date_diff_in(d, now)[1] > 365

\* antipatterns.py 241-328; now is the day datetime.now() gives
check_big_date_range(root, now) ==
    \E w \in Range(find_all(root, {"Where"}) \o find_all(root, {"Join"})) :
        \E d \in Range(find_all(w, {"Between"}) \o find_all(w, {"GTE"}) \o find_all(w, {"GT"})) :
            sets_status(d, now)

\* functions.py 161-163: the parameters of get_queried_tables; none has a
\* default value.
get_queried_tables_parameters == <<"ast", "columns_dict", "row_count">>

\* functions.py 202-222: the keys a Table node adds to queried_tables, in
\* the order they are inserted.
inserted_keys(qt, t, dict, order, threshold) ==
    LET after == VisitTableNode(qt, t, dict, order, threshold)
    IN (IF full_table_name_of(t) \in DOMAIN after \ DOMAIN qt
        THEN <<full_table_name_of(t)>> ELSE << >>)
       \o (IF alias_of(t) \in DOMAIN after \ DOMAIN qt /\ alias_of(t) # full_table_name_of(t)
           THEN <<alias_of(t)>> ELSE << >>)

\* functions.py 177-222: the loop over the Table nodes; the dict is kept
\* as its mapping and the list of its keys in insertion order.
RECURSIVE visit_all_tables(_, _, _, _, _)
visit_all_tables(qt, tables, dict, order, threshold) ==
    IF tables = << >> THEN qt
    ELSE LET t == table_record(Head(tables))
         IN visit_all_tables(
                [keys |-> qt.keys \o inserted_keys(qt.entries, t, dict, order, threshold),
                 entries |-> VisitTableNode(qt.entries, t, dict, order, threshold)],
                Tail(tables), dict, order, threshold)

\* functions.py 161-223, called with the positional arguments args: a call
\* that does not bind every parameter raises TypeError.
get_queried_tables(args, order) ==
    IF Len(args) # Len(get_queried_tables_parameters)
    THEN [status |-> "TypeError"]
    ELSE LET qt == visit_all_tables(
                       [keys |-> << >>, entries |-> << >>],
                       tables_under(find_all(args[1], {"Join"}) \o find_all(args[1], {"From"})),
                       args[2], order, args[3])
         IN [status |-> "ok", keys |-> qt.keys, entries |-> qt.entries]

\* antipatterns.py 677-690
check_unpartitioned_tables(root, dict, order) ==
    LET queried == get_queried_tables(<<root, dict>>, order)
    IN IF queried.status # "ok" THEN queried
       ELSE [status |-> "ok",
             result |-> SelectSeq(queried.keys,
                                  LAMBDA k : /\ queried.entries[k].partitioned_column = NoColumn
                                             /\ ~queried.entries[k].is_alias
                                             /\ ~IsSubstring(<<"d", "i", "m", "_">>, queried.entries[k].table))]

\* config.distinct_function_row_count, above the row_count of the other rules.
DistinctThreshold == 3

\* antipatterns.py 693-705
check_distinct_on_big_table(root, dict, order) ==
    LET queried_tables_ == get_queried_tables(<<root, dict, DistinctThreshold>>, order)
        select_stmt == find(root, {"Select"})
    IN /\ Len(queried_tables_.keys) > 0
       /\ select_stmt # NoNode
       /\ find(select_stmt, {"Distinct"}) # NoNode

\* antipatterns.py 708-719
check_count_distinct_on_big_table(root, dict, order) ==
    LET queried_tables_ == get_queried_tables(<<root, dict, DistinctThreshold>>, order)
        count_expr == find(root, {"Count"})
    IN /\ Len(queried_tables_.keys) > 0
       /\ count_expr # NoNode
       /\ find(count_expr, {"Distinct"}) # NoNode

\* antipatterns.py 331-364: check_big_table_no_date up to its call of
\* get_queried_tables, which passes two positional arguments; the call
\* raises for every statement and catalog, and the statements after it
\* (365-674) are not reached.
check_big_table_no_date(root, dict, order) ==
    LET queried == get_queried_tables(<<root, dict>>, order)
    IN [status |-> queried.status]

(***************************************************************************)
(* The statements the rules are given.                                     *)
(***************************************************************************)
\* p.d.f, a table of the catalog
QualifiedTable == TableNode(<<"p">>, <<"d">>, <<"f">>, None)

\* c, a name without dataset: a CTE or a table of the default dataset
UnqualifiedTable == TableNode(None, None, <<"c">>, None)

ColA == Column(None, <<"a">>)

ColB == Column(None, <<"b">>)

\* the select lists: *, a, COUNT( * ), COUNT(a), f.*, and *, COUNT(a)
Projections ==
    { <<StarNode>>, <<ColA>>, <<Count(StarNode)>>, <<Count(ColA)>>,
      <<Node("Column", None, Arg("this", StarNode) \o Arg("table", Identifier(<<"f">>)))>>,
      <<StarNode, Count(ColA)>> }

\* SELECT ... FROM table, nothing else
InnerSelects ==
    {Select(Plain(e, Table(t))) :
        e \in {<<StarNode>>, <<ColA>>, <<Count(StarNode)>>},
        t \in {QualifiedTable, UnqualifiedTable}}

\* Statements for check_select_star: a select list over a table or a
\* subquery, with or without WHERE a IN (subquery); and UPDATE ... FROM,
\* whose From has no Select above it.
SelectStarInputs ==
    {Select([Plain(e, src) EXCEPT !.where = w]) :
        e \in Projections,
        src \in {Table(QualifiedTable), Table(UnqualifiedTable)}
                  \cup {Subquery(s) : s \in InnerSelects},
        w \in {NoNode} \cup {Where(InQuery(ColB, s)) : s \in InnerSelects}}
    \cup {Node("Update", None, Arg("this", Table(UnqualifiedTable)) \o Arg("from", From(src))) :
            src \in {Table(QualifiedTable)} \cup {Subquery(s) : s \in InnerSelects}}

\* Statements for check_order_without_limit: ORDER BY and LIMIT, present or
\* not, on the statement and on a subquery it reads; the statement is a
\* Select or a Union.
OrderLimitInputs ==
    LET clauses == {[order |-> o, limit |-> l] :
                        o \in {NoNode, Order(ColA)}, l \in {NoNode, Limit(<<"1">>)}}
        inner == {Select([Plain(<<ColA>>, Table(QualifiedTable))
                             EXCEPT !.order = c.order, !.limit = c.limit]) : c \in clauses}
    IN {Select([Plain(<<ColA>>, src) EXCEPT !.order = c.order, !.limit = c.limit]) :
            src \in {Table(QualifiedTable)} \cup {Subquery(s) : s \in inner},
            c \in clauses}
       \cup {Node("Union", None,
                  Arg("this", l) \o Arg("expression", l)
                  \o Arg("order", c.order) \o Arg("limit", c.limit)) :
                l \in inner, c \in clauses}

ColId == Column(None, <<"i", "d">>)

\* REGEXP_CONTAINS(a, 'x')
RegexpLike == Binary("RegexpLike", ColA, Literal(<<"x">>))

\* a LIKE '%x%'
Like == Binary("Like", ColA, Literal(<<"%", "x", "%">>))

\* id = 5
IdEq == Binary("EQ", ColId, Literal(<<"5">>))

\* Statements for check_regexp_in_where: a WHERE, or none, on the
\* statement and on a subquery or a CTE it reads.
RegexpInputs ==
    LET conditions == {NoNode, Where(IdEq), Where(RegexpLike), Where(Like),
                       Where(Binary("And", IdEq,
                                    Binary("EQ", Node("RegexpExtract", None,
                                                      Arg("this", ColA) \o Arg("expression", Literal(<<"x">>))),
                                           Literal(<<"y">>)))),
                       Where(Binary("EQ", Node("RegexpReplace", None,
                                               Arg("this", ColA) \o Arg("expression", Literal(<<"x">>))),
                                    Literal(<<"y">>)))}
        inner == {Select([Plain(<<ColA>>, Table(QualifiedTable)) EXCEPT !.where = w]) :
                     w \in {NoNode, Where(IdEq), Where(RegexpLike)}}
    IN {Select([Plain(<<ColA>>, src) EXCEPT !.where = w]) :
            src \in {Table(QualifiedTable)} \cup {Subquery(s) : s \in inner},
            w \in conditions}
       \cup {Select([Plain(<<ColA>>, Table(UnqualifiedTable))
                        EXCEPT !.where = w, !.with = With(<<CTE(<<"c">>, s)>>)]) :
                s \in inner, w \in conditions}

\* Statements for check_semi_join_without_aggregation: a WHERE with IN
\* over a subquery or over a list of values, with a scalar subquery, or
\* with neither; the subqueries plain, DISTINCT, grouped, or DISTINCT
\* over a plain subquery.
SemiJoinInputs ==
    LET plain == Select(Plain(<<ColB>>, Table(QualifiedTable)))
        distinct == Select([Plain(<<ColB>>, Table(QualifiedTable)) EXCEPT !.distinct = Distinct])
        grouped == Select([Plain(<<ColB>>, Table(QualifiedTable)) EXCEPT !.group = Group(ColB)])
        nested == Select([Plain(<<ColB>>, Subquery(plain)) EXCEPT !.distinct = Distinct])
        smallest == Select(Plain(<<Min(ColB)>>, Table(QualifiedTable)))
        subqueries == {plain, distinct, grouped, nested, smallest}
        values == InList(ColId, <<Literal(<<"1">>), Literal(<<"2">>)>>)
        conditions ==
            {IdEq, values}
            \cup {InQuery(ColA, s) : s \in subqueries}
            \cup {Binary("EQ", ColA, Subquery(s)) : s \in subqueries}
            \cup {Binary("And", values, Binary("EQ", ColA, Subquery(s))) : s \in subqueries}
            \cup {Binary("And", IdEq, InQuery(ColA, s)) : s \in subqueries}
    IN {Select(Plain(<<ColA>>, Table(QualifiedTable)))}
       \cup {Select([Plain(<<ColA>>, Table(QualifiedTable)) EXCEPT !.where = Where(c)]) :
                c \in conditions}
       \cup {Select(Plain(<<ColA>>, Subquery(
                 Select([Plain(<<ColA>>, Table(QualifiedTable)) EXCEPT !.where = Where(c)])))) :
                c \in conditions}

\* id > 5
IdGt == Binary("GT", ColId, Literal(<<"5">>))

\* id IN (5)
IdIn == InList(ColId, <<Literal(<<"5">>)>>)

\* 1 = 1
OneEqOne == Binary("EQ", Literal(<<"1">>), Literal(<<"1">>))

\* TRUE
True == Node("Boolean", <<"T", "r", "u", "e">>, << >>)

Predicates == {Like, RegexpLike, IdEq, IdGt, IdIn, OneEqOne, True}

\* p1 AND p2 AND ... : And is left-associative
RECURSIVE Conjunction(_)
Conjunction(list) ==
    IF Len(list) = 1 THEN list[1]
    ELSE Binary("And", Conjunction(SubSeq(list, 1, Len(list) - 1)), list[Len(list)])

\* Statements for check_like_before_more_selective: a WHERE that is a
\* conjunction of one to three different predicates, in every order.
LikeInputs ==
    {Select([Plain(<<ColA>>, Table(UnqualifiedTable)) EXCEPT !.where = Where(Conjunction(list))]) :
        list \in {l \in UNION {[1..len -> Predicates] : len \in 1..3} : NoDuplicates(l)}}
    \cup {Select(Plain(<<ColA>>, Table(UnqualifiedTable)))}

\* the CTE c, and the CTEs d and e that read it
TableC == Table(UnqualifiedTable)

TableNamed(name) == Table(TableNode(None, None, name, None))

\* Statements for check_multiple_cte_reference: WITH c [, d [, e]], c
\* reading a table or being a constant, and a main query that reads c
\* once, twice (FROM c JOIN c, or FROM c WHERE a IN (SELECT a FROM c)),
\* d and e, or a table.
CteInputs ==
    LET bodies == {Select(Plain(<<ColA>>, Table(QualifiedTable))),
                   Select(Plain(<<Literal(<<"1">>)>>, NoNode))}
        reader == Select(Plain(<<ColA>>, TableC))
        withs(body) == {<<CTE(<<"c">>, body)>>,
                        <<CTE(<<"c">>, body), CTE(<<"d">>, reader)>>,
                        <<CTE(<<"c">>, body), CTE(<<"d">>, reader), CTE(<<"e">>, reader)>>}
        mains == {Plain(<<ColA>>, TableC),
                  [Plain(<<ColA>>, TableC) EXCEPT !.joins = <<Join(TableC, IdEq)>>],
                  [Plain(<<ColA>>, TableC) EXCEPT !.where = Where(InQuery(ColA, reader))],
                  [Plain(<<ColA>>, TableNamed(<<"d">>)) EXCEPT !.joins = <<Join(TableNamed(<<"e">>), IdEq)>>],
                  Plain(<<ColA>>, Table(QualifiedTable))}
    IN {Select([m EXCEPT !.with = With(w)]) :
            m \in mains, w \in UNION {withs(body) : body \in bodies}}
       \cup {Select(m) : m \in mains}

\* The catalog of the statements that need none: p.d.f, large, unpartitioned.
PlainCatalog ==
    [k \in {<<"p", ".", "d", ".", "f">>} |-> Meta(2, NoColumn, <<"created_at">>)]

\* Catalogs for check_partition_used: e1 and e2 partitioned on dt both, or
\* on dt and ts; f not partitioned.
PartitionCatalogs ==
    { (<<"p", ".", "d", ".", "e", "1">> :> Meta(2, "dt", <<"dt">>)) @@ (<<"p", ".", "d", ".", "e", "2">> :> Meta(2, part, <<part>>))
      @@ (<<"p", ".", "d", ".", "f">> :> Meta(2, NoColumn, <<"created_at">>)) : part \in {"dt", "ts"} }

\* Statements for check_partition_used: FROM e1, e2 or e*, bare or AS x,
\* alone or joined to e2, e2 AS y or f, and a WHERE on one column.
PartitionInputs ==
    LET sources == {Table(TableNode(<<"p">>, <<"d">>, this, alias)) :
                       this \in {<<"e", "1">>, <<"e", "2">>, <<"e", "*">>}, alias \in {None, <<"x">>}}
        joins == {<< >>} \cup
                 {<<Join(Table(TableNode(<<"p">>, <<"d">>, t[1], t[2])),
                         Binary("EQ", Column(None, <<"i", "d">>), Column(None, <<"k">>)))>> :
                     t \in {<<<<"e", "2">>, None>>, <<<<"e", "2">>, <<"y">>>>, <<<<"f">>, None>>}}
        wheres == {NoNode} \cup
                  {Where(Binary("EQ", c, Literal(<<"1">>))) :
                      c \in {Column(None, <<"d", "t">>), Column(None, <<"D", "T">>), Column(None, <<"t", "s">>),
                             Column(None, <<"i", "d">>), Column(<<"x">>, <<"d", "t">>), Column(<<"y">>, <<"t", "s">>)}}
    IN {Select([Plain(<<ColA>>, s) EXCEPT !.joins = j, !.where = w]) :
            s \in sources, j \in joins, w \in wheres}

\* A statement with the catalog it is analysed against.
Input(tree, dict, order) == [ast |-> tree, columns_dict |-> dict, key_order |-> order]

WithCatalogs(trees, dicts) ==
    {Input(tree, dict, order) :
        tree \in trees,
        order \in UNION {Permutations_(DOMAIN dict) : dict \in dicts},
        dict \in dicts}

CurrentDate == Node("CurrentDate", None, << >>)

\* DATE_SUB(CURRENT_DATE(), INTERVAL length unit)
DateSub(length, unit) ==
    Node("DateSub", None,
         Arg("this", CurrentDate) \o Arg("expression", Literal(length))
         \o Arg("unit", Node("Var", unit, << >>)))

\* left BETWEEN low AND high
Between(left, low, high) ==
    Node("Between", None, Arg("this", left) \o Arg("low", low) \o Arg("high", high))

\* CAST(x AS type)
Cast(x, type) ==
    Node("Cast", None, Arg("this", x) \o Arg("to", Node("DataType", type, << >>)))

\* The days datetime.now() falls on.
Nows == {<<"2", "0", "2", "5", "-", "0", "6", "-", "0", "1">>, <<"2", "0", "2", "5", "-", "0", "6", "-", "0", "2">>}

\* Intervals just below, at and above a year in each unit.
Intervals ==
    {<<<<"3", "6", "5">>, <<"D", "A", "Y">>>>, <<<<"3", "6", "6">>, <<"D", "A", "Y">>>>, <<<<"1">>, <<"Y", "E", "A", "R">>>>, <<<<"2">>, <<"Y", "E", "A", "R">>>>,
     <<<<"5", "2">>, <<"W", "E", "E", "K">>>>, <<<<"5", "3">>, <<"W", "E", "E", "K">>>>, <<<<"1", "2">>, <<"M", "O", "N", "T", "H">>>>, <<<<"1", "3">>, <<"M", "O", "N", "T", "H">>>>,
     <<<<"4">>, <<"Q", "U", "A", "R", "T", "E", "R">>>>, <<<<"5">>, <<"Q", "U", "A", "R", "T", "E", "R">>>>}

\* Statements for check_big_date_range: one predicate, in the WHERE of the
\* statement or of a subquery it reads, or in the ON of a Join.
DateRangeInputs ==
    LET EventDate == Column(None, <<"e", "v", "e", "n", "t", "_", "d", "a", "t", "e">>)
        since == {Binary("GTE", Column(None, name), DateSub(t[1], t[2])) :
                     name \in {<<"e", "v", "e", "n", "t", "_", "d", "a", "t", "e">>, <<"i", "d">>, <<"l", "o", "a", "d", "_", "T", "i", "m", "e">>}, t \in Intervals}
                 \cup {Binary("GT", EventDate, DateSub(length, <<"D", "A", "Y">>)) : length \in {<<"3", "6", "5">>, <<"3", "6", "6">>}}
                 \cup {Binary("GTE", EventDate, Binary("Sub", CurrentDate, Literal(length))) :
                          length \in {<<"3", "6", "5">>, <<"3", "6", "6">>}}
                 \cup {Binary("GTE", Cast(ColId, <<"D", "A", "T", "E">>), DateSub(length, <<"D", "A", "Y">>)) :
                          length \in {<<"3", "6", "5">>, <<"3", "6", "6">>}}
        between == {Between(EventDate, DateSub(t[1], <<"Y", "E", "A", "R">>), CurrentDate) : t \in {<<<<"1">>>>, <<<<"2">>>>}}
                   \cup {Between(EventDate, DateSub(t[1], t[2]), DateSub(t[3], t[4])) :
                            t \in {<<<<"2">>, <<"Y", "E", "A", "R">>, <<"1">>, <<"D", "A", "Y">>>>, <<<<"1">>, <<"D", "A", "Y">>, <<"2">>, <<"Y", "E", "A", "R">>>>,
                                   <<<<"1">>, <<"Y", "E", "A", "R">>, <<"1">>, <<"D", "A", "Y">>>>}}
        dated == {Binary("GTE", EventDate, Literal(text)) :
                     text \in {<<"2", "0", "2", "4", "-", "0", "6", "-", "0", "1">>, <<"2", "0", "2", "4", "-", "0", "5", "-", "3", "1">>, <<"5">>}}
                 \cup {Between(EventDate, Literal(<<"2", "0", "2", "4", "-", "0", "5", "-", "3", "1">>), Literal(<<"2", "0", "2", "5", "-", "0", "1", "-", "0", "1">>))}
        predicates == since \cup between \cup dated
    IN {Select([Plain(<<ColA>>, Table(QualifiedTable)) EXCEPT !.where = Where(d)]) : d \in predicates}
       \cup {Select([Plain(<<ColA>>, Table(QualifiedTable))
                        EXCEPT !.joins = <<Join(Table(QualifiedTable), d)>>]) : d \in predicates}
       \cup {Select(Plain(<<ColA>>,
                          Subquery(Select([Plain(<<ColA>>, Table(QualifiedTable))
                                              EXCEPT !.where = Where(d)])))) : d \in predicates}

\* A catalog with tables below the row_count of the rules, at it, and at
\* the row count of the distinct rules; dimension tables by name, and a
\* table with dim_ inside its name.
SizedCatalog ==
    (<<"p", ".", "d", ".", "s">> :> Meta(RowThreshold - 1, NoColumn, << >>))
    @@ (<<"p", ".", "d", ".", "e", "1">> :> Meta(RowThreshold, "dt", <<"dt">>))
    @@ (<<"p", ".", "d", ".", "e", "2">> :> Meta(RowThreshold, NoColumn, <<"created_at">>))
    @@ (<<"p", ".", "d", ".", "f">> :> Meta(DistinctThreshold, NoColumn, <<"created_at">>))
    @@ (<<"p", ".", "d", ".", "d", "i", "m", "_", "x">> :> Meta(DistinctThreshold, NoColumn, << >>))
    @@ (<<"p", ".", "d", ".", "m", "y", "_", "d", "i", "m", "_", "x">> :> Meta(RowThreshold, NoColumn, << >>))

\* columns_dict.keys() of SizedCatalog
SizedCatalogOrder ==
    <<<<"p", ".", "d", ".", "s">>, <<"p", ".", "d", ".", "e", "1">>, <<"p", ".", "d", ".", "e", "2">>, <<"p", ".", "d", ".", "f">>, <<"p", ".", "d", ".", "d", "i", "m", "_", "x">>, <<"p", ".", "d", ".", "m", "y", "_", "d", "i", "m", "_", "x">>>>

\* Statements for the rules that resolve tables: a table read plainly,
\* with DISTINCT or with COUNT(DISTINCT ...), on the statement itself, on a
\* subquery it reads, or on a subquery of its WHERE.
SizedInputs ==
    LET T(name, alias) == Table(TableNode(<<"p">>, <<"d">>, name, alias))
        names == {<<"s">>, <<"e", "1">>, <<"e", "2">>, <<"f">>, <<"d", "i", "m", "_", "x">>, <<"m", "y", "_", "d", "i", "m", "_", "x">>}
        sized == {<<"s">>, <<"e", "2">>, <<"f">>}
        plain(src) == Select(Plain(<<ColA>>, src))
        distinct(src) == Select([Plain(<<ColB>>, src) EXCEPT !.distinct = Distinct])
        counted(src) == Select(Plain(<<CountDistinct(ColB)>>, src))
    IN {plain(T(name, alias)) : name \in names, alias \in {None, <<"x">>}}
       \cup {distinct(T(name, None)) : name \in names}
       \cup {counted(T(name, None)) : name \in names}
       \cup {distinct(Subquery(plain(T(name, None)))) : name \in sized}
       \cup {Select([Plain(<<ColA>>, T(outer, None))
                        EXCEPT !.where = Where(InQuery(ColA, inner))]) :
                outer \in sized,
                inner \in {distinct(T(name, None)) : name \in sized}
                          \cup {counted(T(name, None)) : name \in sized}}

\* Statements for check_big_date_range whose date arithmetic holds two
\* numeric literals: CURRENT_DATE() - a * b, and
\* DATE_SUB(CURRENT_DATE(), INTERVAL a * b unit).
ProductInputs ==
    LET product(t) == Binary("Mul", Literal(t[1]), Literal(t[2]))
        factors == {<<<<"2">>, <<"1", "0", "0">>>>, <<<<"2">>, <<"2", "0", "0">>>>, <<<<"4", "0", "0">>, <<"1">>>>}
        bounds == {Binary("Sub", CurrentDate, product(t)) : t \in factors}
                  \cup {Node("DateSub", None,
                             Arg("this", CurrentDate) \o Arg("expression", product(t))
                             \o Arg("unit", Node("Var", unit, << >>))) :
                           t \in factors, unit \in {<<"D", "A", "Y">>, <<"W", "E", "E", "K">>}}
    IN {Select([Plain(<<ColA>>, Table(QualifiedTable))
                   EXCEPT !.where = Where(Binary("GTE", Column(None, <<"e", "v", "e", "n", "t", "_", "d", "a", "t", "e">>), b))]) :
            b \in bounds}

(***************************************************************************)
(* Specification SpecRules: a statement is parsed and the rules are called *)
(* on its tree, in any order, each call leaving its result in verdict.     *)
(***************************************************************************)
AstInputs ==
    SelectStarInputs \cup OrderLimitInputs \cup RegexpInputs \cup SemiJoinInputs
    \cup LikeInputs \cup CteInputs \cup DateRangeInputs \cup ProductInputs

\* The result of a rule that returns a bool.
Returned(rule, flag) ==
    [rule |-> rule, status |-> "ok", flag |-> flag, evidence |-> << >>]

NotCalled == Returned("none", FALSE)

\* The statements with their catalogs.
RuleInputs ==
    WithCatalogs(AstInputs, {PlainCatalog})
    \cup {inp \in WithCatalogs(PartitionInputs, PartitionCatalogs) :
            DOMAIN inp.columns_dict = Range(inp.key_order)}
    \cup {Input(tree, SizedCatalog, SizedCatalogOrder) : tree \in SizedInputs}

\* The result of a rule that raised an exception.
Raised(rule, error) == [rule |-> rule, status |-> error, flag |-> FALSE, evidence |-> << >>]

\* The result of a rule that returns a bool and a list.
ReturnedList(rule, evidence) ==
    [rule |-> rule, status |-> "ok", flag |-> Len(evidence) > 0, evidence |-> evidence]

InitRules ==
    /\ \E inp \in RuleInputs :
          /\ ast = inp.ast
          /\ columns_dict = inp.columns_dict
          /\ key_order = inp.key_order
    /\ verdict = NotCalled
    /\ row_count = RowThreshold
    /\ queried_tables = << >>
    /\ ctes = {}
    /\ refs = << >>
    /\ rpc = "idle"
    /\ JobIdle

Call(result) ==
    /\ verdict' = result
    /\ UNCHANGED ast
    /\ UNCHANGED jobVars
    /\ UNCHANGED resolverVars

CallSelectStar == \E v \in {check_select_star(ast)} : Call(Returned("select_star", v))

CallOrderWithoutLimit ==
    \E v \in {check_order_without_limit(ast)} : Call(Returned("order_without_limit", v))

CallRegexpInWhere ==
    \E v \in {check_regexp_in_where(ast)} : Call(Returned("regexp_in_where", v))

CallSemiJoinWithoutAggregation ==
    \E v \in {check_semi_join_without_aggregation(ast)} :
        Call(Returned("semi_join_without_aggregation", v))

CallLikeBeforeMoreSelective ==
    \E v \in {check_like_before_more_selective(ast)} :
        Call(Returned("like_before_more_selective", v))

CallMultipleCteReference ==
    \E v \in {check_multiple_cte_reference(ast)} : Call(Returned("multiple_cte_reference", v))

CallPartitionUsed ==
    \E v \in {check_partition_used(ast, columns_dict, key_order)} :
        Call(ReturnedList("partition_used", v))

CallBigDateRange ==
    \E now \in Nows : \E v \in {check_big_date_range(ast, now)} :
        Call(Returned("big_date_range", v))

CallBigTableNoDate ==
    \E v \in {check_big_table_no_date(ast, columns_dict, key_order)} :
        /\ v.status # "ok"
        /\ Call(Raised("big_table_no_date", v.status))

CallUnpartitionedTables ==
    \E v \in {check_unpartitioned_tables(ast, columns_dict, key_order)} :
        Call(IF v.status = "ok" THEN ReturnedList("unpartitioned_tables", v.result)
             ELSE Raised("unpartitioned_tables", v.status))

CallDistinctOnBigTable ==
    \E v \in {check_distinct_on_big_table(ast, columns_dict, key_order)} :
        Call(Returned("distinct_on_big_table", v))

CallCountDistinctOnBigTable ==
    \E v \in {check_count_distinct_on_big_table(ast, columns_dict, key_order)} :
        Call(Returned("count_distinct_on_big_table", v))

NextRules ==
    \/ CallSelectStar
    \/ CallOrderWithoutLimit
    \/ CallRegexpInWhere
    \/ CallSemiJoinWithoutAggregation
    \/ CallLikeBeforeMoreSelective
    \/ CallMultipleCteReference
    \/ CallPartitionUsed
    \/ CallBigDateRange
    \/ CallBigTableNoDate
    \/ CallUnpartitionedTables
    \/ CallDistinctOnBigTable
    \/ CallCountDistinctOnBigTable

SpecRules == InitRules /\ [][NextRules]_vars


(***************************************************************************)
(* Specification SpecRun: run_check evaluates the jobs of a run against    *)
(* one catalog and one configuration.  The program takes the jobs one      *)
(* after the other; here any job may take its next statement, so that      *)
(* every order and every interleaving of the jobs is a behaviour.          *)
(***************************************************************************)
NumJobs == 2

JobIds == 1..NumJobs

\* SELECT a FROM p.d.e*, SELECT a FROM p.d.e1 WHERE dt = 1, SELECT * FROM p.d.f
RunStatements ==
    { Select(Plain(<<ColA>>, Table(TableNode(<<"p">>, <<"d">>, <<"e", "*">>, None)))),
      Select([Plain(<<ColA>>, Table(TableNode(<<"p">>, <<"d">>, <<"e", "1">>, None)))
                 EXCEPT !.where = Where(Binary("EQ", Column(None, <<"d", "t">>), Literal(<<"1">>)))]),
      Select(Plain(<<StarNode>>, Table(QualifiedTable))) }

\* The statements of one job, in the order get_statements returns them.
RunQueries == UNION {[1..m -> RunStatements] : m \in 1..MaxStatements}

\* datetime.now() during the run; no statement of the run holds a literal
\* date, so that the day does not bear on a result.
RunDate == CHOOSE now \in Nows : TRUE

\* The result of a rule that returns a bool and a list, or raises.
ReturnedOrRaised(rule, v) ==
    IF v.status = "ok" THEN ReturnedList(rule, v.result) ELSE Raised(rule, v.status)

\* classes.py 116-261: the call in rule r's block, on the tree of a
\* statement.
Evaluate(r, tree, dict, order) ==
    CASE r = "partition_used" ->
            ReturnedList(r, check_partition_used(tree, dict, order))
      [] r = "big_date_range" -> Returned(r, check_big_date_range(tree, RunDate))
      [] r = "big_table_no_date" ->
            Raised(r, check_big_table_no_date(tree, dict, order).status)
      [] r = "select_star" -> Returned(r, check_select_star(tree))
      [] r = "multiple_cte_reference" -> Returned(r, check_multiple_cte_reference(tree))
      [] r = "semi_join_without_aggregation" ->
            Returned(r, check_semi_join_without_aggregation(tree))
      [] r = "order_without_limit" -> Returned(r, check_order_without_limit(tree))
      [] r = "like_before_more_selective" ->
            Returned(r, check_like_before_more_selective(tree))
      [] r = "regexp_in_where" -> Returned(r, check_regexp_in_where(tree))
      [] r = "unpartitioned_tables" ->
            ReturnedOrRaised(r, check_unpartitioned_tables(tree, dict, order))
      [] r = "distinct_on_big_table" ->
            Returned(r, check_distinct_on_big_table(tree, dict, order))
      [] r = "count_distinct_on_big_table" ->
            Returned(r, check_count_distinct_on_big_table(tree, dict, order))

\* classes.py 124-129: the order in which the set of the job's partition
\* entries is listed; it depends on the entries and on the process, not on
\* the other jobs.
ListingOf(entries) == CHOOSE ord \in Permutations_(Range(entries)) : TRUE

\* The body of rule r's try block once the call has returned or raised v.
MergeResult(r, j, v) ==
    IF v.status # "ok" THEN j
    ELSE IF r = "partition_used"
         THEN MergePartitions(j, v.flag, v.evidence,
                              [table_name |-> <<"-">>, partitioned_column |-> <<"-">>],
                              ListingOf(j.available_partitions \o v.evidence))
         ELSE Merge(r, j, v, << >>)

\* One "if config.is_antipattern_enabled(r): try: ... except" block, with
\* the rule computed on the tree.
TryRuleOn(r, j, tree, dict, order) ==
    IF is_antipattern_enabled(r)
    THEN MergeResult(r, j, Evaluate(r, tree, dict, order))
    ELSE j

\* classes.py 116-261: the twelve blocks in order, from the k-th on.
RECURSIVE RunRulesOn(_, _, _, _, _)
RunRulesOn(k, j, tree, dict, order) ==
    IF k > Len(RuleOrder) THEN j
    ELSE RunRulesOn(k + 1, TryRuleOn(RuleOrder[k], j, tree, dict, order),
                    tree, dict, order)

\* Mutant: get_queried_tables sorts the keys of the catalog itself.
catalog_keys_after_SortedInPlace(order) == SortNames(order)

\* functions.py 183-190: the keys of columns_dict after a call of a
\* resolver: table_list is a new list, and table_list.sort() sorts that.
catalog_keys_after(order) == order

\* Job.check_antipatterns on a whole query, from Job.__init__ on.
RECURSIVE check_antipatterns(_, _, _)
check_antipatterns(statements, dict, order) ==
    IF statements = << >> THEN NewJob
    ELSE RunRulesOn(1, check_antipatterns(SubSeq(statements, 1, Len(statements) - 1),
                                          dict, order),
                    statements[Len(statements)], dict, order)

\* main.py 508-513: the jobs of the run, each a Job as Job.__init__ leaves
\* it, and the catalog and configuration they share.
InitRun ==
    /\ jobs \in [JobIds -> {[statements |-> q, taken |-> 0, fields |-> NewJob] :
                              q \in RunQueries}]
    /\ columns_dict \in PartitionCatalogs
    /\ key_order \in Permutations_(DOMAIN columns_dict)
    /\ antipatterns = DefaultAntipatterns
    /\ job = NewJob
    /\ n = 0
    /\ i = 0
    /\ pc = "idle"
    /\ cur = NoStatement
    /\ ran = {}
    /\ queried_tables = << >>
    /\ row_count = RowThreshold
    /\ ctes = {}
    /\ refs = << >>
    /\ rpc = "idle"
    /\ RulesIdle

\* classes.py 109-264: job id takes its next statement.
EvaluateStatement(id) ==
    /\ jobs[id].taken < Len(jobs[id].statements)
    /\ jobs' = [jobs EXCEPT
                  ![id].taken = @ + 1,
                  ![id].fields = RunRulesOn(1, @, jobs[id].statements[jobs[id].taken + 1],
                                            columns_dict, key_order)]
    /\ key_order' = catalog_keys_after(key_order)
    /\ UNCHANGED <<job, antipatterns, n, i, pc, cur, ran>>
    /\ UNCHANGED <<queried_tables, columns_dict, row_count, ctes, refs, rpc>>
    /\ UNCHANGED ruleVars

NextRun == \E id \in JobIds : EvaluateStatement(id)

SpecRun == InitRun /\ [][NextRun]_vars

(***************************************************************************)
(* Vocabulary of the claims about the rules: the statement as a set of     *)
(* positions (paths of child indices from the root), without reference to  *)
(* the order of any walk.                                                  *)
(***************************************************************************)
RECURSIVE Positions(_)
Positions(x) ==
    {<< >>} \cup UNION {{<<k>> \o p : p \in Positions(x.kids[k])} : k \in DOMAIN x.kids}

RECURSIVE At(_, _)
At(x, p) == IF p = << >> THEN x ELSE At(x.kids[Head(p)], Tail(p))

IsPrefix(q, p) == Len(q) <= Len(p) /\ SubSeq(p, 1, Len(q)) = q

\* The positions at or below q that hold a node of class type.
Within(q, type) == {r \in Positions(ast) : IsPrefix(q, r) /\ At(ast, r).type = type}

\* The positions holding a node of class type.
NodesOf(type) == Within(<< >>, type)

\* q holds the Select that the node at p belongs to.
IsSelectOf(q, p) ==
    /\ q # p
    /\ IsPrefix(q, p)
    /\ At(ast, q).type = "Select"
    /\ \A m \in NodesOf("Select") : (IsPrefix(q, m) /\ IsPrefix(m, p) /\ m # p) => m = q

\* The node at p has an argument key.
HasArg(p, key) == \E k \in DOMAIN At(ast, p).kids : At(ast, p).kids[k].key = key

\* The position of the argument key of the node at p.
ArgPos(p, key) == p \o <<CHOOSE k \in DOMAIN At(ast, p).kids : At(ast, p).kids[k].key = key>>

\* The From at p reads a table that carries a dataset qualifier.
ReadsQualifiedTable(p) ==
    /\ HasArg(p, "this")
    /\ At(ast, ArgPos(p, "this")).type = "Table"
    /\ HasArg(ArgPos(p, "this"), "db")

C12_OrderWithoutLimit ==
    verdict.rule = "order_without_limit" =>
        (verdict.flag <=> (HasArg(<< >>, "order") /\ ~HasArg(<< >>, "limit")))

\* A subquery is ordered without limit, the statement is not ordered.
C12_Witness ==
    /\ verdict.rule = "order_without_limit"
    /\ ~verdict.flag
    /\ \E p \in NodesOf("Order") : Len(p) > 1
    /\ NodesOf("Limit") = {}

\* The positions at or below q that hold a node of one of the classes types.
WithinAny(q, types) ==
    {r \in Positions(ast) : IsPrefix(q, r) /\ At(ast, r).type \in types}

\* C13 (regexp_in_where): check_regexp_in_where returns true iff a Where
\* clause of the statement holds a regex-match, regex-replace or
\* regex-extract node in its subtree; without a Where clause, or with
\* non-regex predicates only, it returns false.
C13_RegexpInWhere ==
    verdict.rule = "regexp_in_where" =>
        (verdict.flag <=>
            \E p \in NodesOf("Where") :
                WithinAny(p, {"RegexpLike", "RegexpReplace", "RegexpExtract"}) # {})

\* p holds an IN predicate whose right side is a subquery without Distinct
\* and without Group.
IsUnaggregatedSemiJoin(p) ==
    /\ At(ast, p).type = "In"
    /\ HasArg(p, "query")
    /\ Within(ArgPos(p, "query"), "Distinct") = {}
    /\ Within(ArgPos(p, "query"), "Group") = {}

\* C14 (semi_join_without_aggregation): the rule returns true iff some
\* Where clause holds an IN predicate whose right side is a subquery with
\* neither a Distinct nor a Group node; a Where without IN predicate, or
\* whose IN subquery uses DISTINCT or GROUP BY, gives false.
C14_SemiJoin ==
    verdict.rule = "semi_join_without_aggregation" =>
        (verdict.flag <=>
            \E w \in NodesOf("Where") : \E p \in Within(w, "In") : IsUnaggregatedSemiJoin(p))

\* The conjuncts of a condition, in source order.
RECURSIVE Conjuncts(_)
Conjuncts(x) ==
    IF x.type = "And"
    THEN Conjuncts(ArgOf(x, "this")) \o Conjuncts(ArgOf(x, "expression"))
    ELSE <<x>>

IsGuard(x) ==
    \/ x.type = "Boolean"
    \/ x.type = "EQ" /\ ArgOf(x, "this").type = "Literal" /\ ArgOf(x, "expression").type = "Literal"

\* The conjuncts of the statement's WHERE, a leading 1=1 or TRUE skipped.
GuardedConjuncts ==
    LET all == Conjuncts(ArgOf(ArgOf(ast, "where"), "this"))
    IN IF IsGuard(Head(all)) THEN Tail(all) ELSE all

\* C15 (like_before_more_selective): the rule returns true iff the Where
\* clause holds a pattern-match predicate (LIKE or a regexp function) and
\* the earliest of them, a leading 1=1 or TRUE guard skipped, comes
\* before the earliest more selective predicate (greater-than, less-than,
\* equality, IN); the same for LIKE and for a regexp function.
C15_LikeBeforeMoreSelective ==
    verdict.rule = "like_before_more_selective" /\ ast \in LikeInputs =>
        (verdict.flag <=>
            /\ HasArg(<< >>, "where")
            /\ \E a \in DOMAIN GuardedConjuncts :
                  /\ GuardedConjuncts[a].type \in {"Like", "RegexpLike", "RegexpReplace", "RegexpExtract"}
                  /\ \E b \in DOMAIN GuardedConjuncts :
                        GuardedConjuncts[b].type \in {"GT", "LT", "EQ", "In"}
                  /\ \A b \in DOMAIN GuardedConjuncts :
                        GuardedConjuncts[b].type \in {"GT", "LT", "EQ", "In"} => a < b)

\* The From and Join sources of the statement that read the table name.
ReferencesTo(name) ==
    {p \in NodesOf("Table") :
        /\ ~HasArg(p, "db")
        /\ At(ast, ArgPos(p, "this")).val = name}

\* C16 (multiple_cte_reference): the rule returns true iff some CTE whose
\* definition holds a From is read as a source two or more times in the
\* statement (for example by the main query, FROM c JOIN c), and false
\* when every such CTE is read at most once.
C16_MultipleCteReference ==
    verdict.rule = "multiple_cte_reference" =>
        (verdict.flag <=>
            \E q \in NodesOf("CTE") :
                /\ Within(q, "From") # {}
                /\ Cardinality(ReferencesTo(At(ast, ArgPos(ArgPos(q, "alias"), "this")).val)) >= 2)

\* The full names of the tables that the statement reads in a From or a
\* Join and that the catalog holds with a partition column.
PartitionedReferences ==
    {full_table_name_of(table_record(At(ast, p))) : p \in NodesOf("Table")}
        \cap {k \in DOMAIN columns_dict : columns_dict[k].partitioned_column # NoColumn}

\* The names, in lower case, of the columns in the Joins and Wheres.
FilterColumns ==
    {lower(ArgOf(At(ast, r), "this").val) :
        r \in UNION {Within(p, "Column") : p \in NodesOf("Join") \cup NodesOf("Where")}}

\* The partitioned tables read whose partition column no Join or Where names.
UnfilteredPartitions ==
    {[table_name |-> k, partitioned_column |-> column_text(columns_dict[k].partitioned_column)] :
        k \in {f \in PartitionedReferences :
                  lower(column_text(columns_dict[f].partitioned_column)) \notin FilterColumns}}

\* C17 (partition_not_used): the evidence of check_partition_used is
\* exactly the partitioned catalog tables read in a From or Join whose
\* partition column is named, in any letter case, by no column of any Join
\* or Where, each at most once, and the boolean is true iff the evidence is
\* not empty.  Stated for the statements that name their tables in full,
\* without a wildcard.
C17_PartitionUsed ==
    (/\ verdict.rule = "partition_used"
     /\ \A p \in NodesOf("Table") : ~HasStar(ArgOf(At(ast, p), "this").val)) =>
        /\ Range(verdict.evidence) = UnfilteredPartitions
        /\ Len(verdict.evidence) = Cardinality(UnfilteredPartitions)
        /\ verdict.flag <=> verdict.evidence # << >>

\* The predicate at p compares an operand named for a date: its column, or
\* the type it is cast to, has date, time or partition in the name.
IsDateNamed(p) ==
    LET name == IF Within(p, "Cast") # {}
                THEN lower(ArgOf(At(ast, CHOOSE c \in Within(p, "Cast") : TRUE), "to").val)
                ELSE lower(ArgOf(At(ast, ArgPos(p, "this")), "this").val)
    IN \E word \in {<<"d", "a", "t", "e">>, <<"t", "i", "m", "e">>, <<"p", "a", "r", "t", "i", "t", "i", "o", "n">>} : IsSubstring(word, name)

\* The spans in days of the date arithmetic in the predicate at p:
\* magnitude times the days of the unit, or a number of days subtracted.
SpansOf(p) ==
    {int(ArgOf(At(ast, q), "expression").val) * days(ArgOf(At(ast, q), "unit").val) :
        q \in Within(p, "DateSub")}
    \cup {int(ArgOf(At(ast, q), "expression").val) : q \in Within(p, "Sub")}

\* The Between, >= and > predicates in a Where or a Join.
RangePredicates ==
    UNION {WithinAny(w, {"Between", "GTE", "GT"}) : w \in NodesOf("Where") \cup NodesOf("Join")}

\* C18 (big_date_range): check_big_date_range returns true iff some
\* Between, >= or > predicate in a Where or Join that is named for a date,
\* a time or a partition has a span strictly greater than 365 days, a span
\* of date arithmetic being magnitude times days per unit (DAY 1, WEEK 7,
\* MONTH 30, QUARTER 90, YEAR 365): 365 DAY and 1 YEAR do not trigger,
\* 366 DAY and 2 YEAR do.  Stated for the statements whose bounds are date
\* arithmetic on one number, not literal dates or products.
C18_BigDateRange ==
    (/\ verdict.rule = "big_date_range"
     /\ NodesOf("Mul") = {}
     /\ \A q \in NodesOf("Literal") : isnumeric(At(ast, q).val)) =>
        (verdict.flag <=>
            \E p \in RangePredicates : IsDateNamed(p) /\ \E span \in SpansOf(p) : span > 365)

\* The symbol table of the statement: get_queried_tables with the row_count
\* of the rules.
SymbolTable ==
    get_queried_tables(<<ast, columns_dict, row_count>>, key_order).entries

\* C19 (unpartitioned_tables): check_unpartitioned_tables reports exactly
\* the symbol-table entries that are not aliases, have no partition column
\* and whose short table name does not start with dim_, and returns true
\* iff it reports any; a table without partition whose name holds dim_
\* elsewhere than at its start is reported.
C19_UnpartitionedTables ==
    verdict.rule = "unpartitioned_tables" =>
        /\ verdict.status = "ok"
        /\ Range(verdict.evidence) =
              {k \in DOMAIN SymbolTable :
                  /\ ~SymbolTable[k].is_alias
                  /\ SymbolTable[k].partitioned_column = NoColumn
                  /\ ~IsPrefix(<<"d", "i", "m", "_">>, SymbolTable[k].table)}
        /\ verdict.flag <=> verdict.evidence # << >>

\* The Select at q reads, as the target of its From, a table that the
\* catalog resolves to at least DistinctThreshold rows.
ReadsBigTable(q) ==
    /\ HasArg(q, "from")
    /\ At(ast, ArgPos(ArgPos(q, "from"), "this")).type = "Table"
    /\ LET name == full_table_name_of(table_record(At(ast, ArgPos(ArgPos(q, "from"), "this"))))
       IN /\ Matching(name) # {}
          /\ RowsOf(Matching(name)) >= DistinctThreshold

\* Some Distinct is held by a Select that reads a big table.
DistinctOnBigTable ==
    \E p \in NodesOf("Distinct") : \E q \in NodesOf("Select") :
        IsSelectOf(q, p) /\ ReadsBigTable(q)

\* C20 (distinct_on_big_table, count_distinct_on_big_table): the two rules
\* return true only when the From target of the Select that holds the
\* Distinct resolves to a catalog table with total_rows of at least
\* distinct_function_row_count; a table at large_table_row_count but below
\* distinct_function_row_count never triggers them, and a table of exactly
\* distinct_function_row_count rows does.
C20_DistinctOnBigTable ==
    verdict.rule \in {"distinct_on_big_table", "count_distinct_on_big_table"} =>
        /\ verdict.flag => DistinctOnBigTable
        /\ (/\ verdict.rule = "distinct_on_big_table"
            /\ ast = Select([Plain(<<ColB>>, Table(TableNode(<<"p">>, <<"d">>, <<"f">>, None)))
                                EXCEPT !.distinct = Distinct])) => verdict.flag
        /\ (/\ verdict.rule = "count_distinct_on_big_table"
            /\ ast = Select(Plain(<<CountDistinct(ColB)>>,
                                  Table(TableNode(<<"p">>, <<"d">>, <<"f">>, None))))) => verdict.flag

(***************************************************************************)
(* Specification SpecConfig: Job.check_antipatterns under a configuration  *)
(* that Config.from_yaml or Config.from_env built.                         *)
(***************************************************************************)
\* Config.from_yaml on a file that lists two rules only, one switched off.
PartialAntipatterns == ("select_star" :> FALSE) @@ ("partition_used" :> TRUE)

\* Config.from_yaml on a file that lists every rule and switches off three.
SelectiveAntipatterns ==
    [DefaultAntipatterns EXCEPT !["partition_used"] = FALSE,
                                !["big_date_range"] = FALSE,
                                !["unpartitioned_tables"] = FALSE]

\* config.antipatterns as the constructors can leave it.
Configurations == {DefaultAntipatterns, PartialAntipatterns, SelectiveAntipatterns}

\* Config.get_enabled_antipatterns, as a set
get_enabled_antipatterns == {name \in DOMAIN antipatterns : antipatterns[name]}

InitConfig ==
    /\ job = NewJob
    /\ antipatterns \in Configurations
    /\ n \in 0..MaxStatements
    /\ i = 0
    /\ pc = "loop"
    /\ cur = NoStatement
    /\ ran = {}
    /\ jobs = << >>
    /\ ResolverIdle
    /\ RulesIdle

SpecConfig == InitConfig /\ [][Next]_vars

\* The rules the configuration lists and switches off.
SwitchedOff == {r \in Rules \cap DOMAIN antipatterns : ~antipatterns[r]}

C23_NearestSelectOnly ==
    (verdict.rule = "select_star" /\ verdict.flag) =>
        \E p \in NodesOf("Star") : \E q \in NodesOf("Select") :
            /\ IsSelectOf(q, p)
            /\ HasArg(q, "from")
            /\ ReadsQualifiedTable(ArgPos(q, "from"))

\* The Join and Where columns as get_column_and_table_name_from_column
\* reads them.
FilterColumnRefs ==
    {get_column_and_table_name_from_column(At(ast, r)) :
        r \in UNION {Within(p, "Column") : p \in NodesOf("Join") \cup NodesOf("Where")}}

\* The names that stand for the table k in the statement: its full name
\* and the aliases it is read under.
NamesOf(k) ==
    {k} \cup {alias_of(table_record(At(ast, p))) :
                p \in {q \in NodesOf("Table") :
                          full_table_name_of(table_record(At(ast, q))) = k}}

\* The column c uses the partition of table k: it names k's partition
\* column, with a qualifier that stands for k or with none.
UsesPartitionOf(c, k) ==
    /\ c.column_name # None
    /\ lower(c.column_name) = lower(column_text(columns_dict[k].partitioned_column))
    /\ c.table_name = None \/ c.table_name \in NamesOf(k)

\* C24 (partition_not_used, qualified columns): a Join or Where column
\* that carries a table name or alias counts as use of the partition of
\* the table the qualifier stands for only; with two partitioned tables
\* whose partition columns have one name, a predicate on the qualified
\* partition column of the first leaves the second in the evidence.  Stated
\* for the statements whose qualifiers each stand for a table they read.
C24_QualifierSelectsTable ==
    (/\ verdict.rule = "partition_used"
     /\ \A c \in FilterColumnRefs :
           c.table_name = None \/ \E k \in PartitionedReferences : c.table_name \in NamesOf(k)
     /\ \A p \in NodesOf("Table") : ~HasStar(ArgOf(At(ast, p), "this").val)) =>
        \A k \in PartitionedReferences :
            (\A c \in FilterColumnRefs : ~UsesPartitionOf(c, k)) =>
                \E e \in Range(verdict.evidence) : e.table_name = k

\* Position a comes before position b in the order a search finds nodes:
\* nearer the root first, then from left to right.
RECURSIVE LeftOf(_, _)
LeftOf(a, b) ==
    /\ a # << >>
    /\ b # << >>
    /\ \/ Head(a) < Head(b)
       \/ Head(a) = Head(b) /\ LeftOf(Tail(a), Tail(b))

FoundBefore(a, b) == Len(a) < Len(b) \/ (Len(a) = Len(b) /\ LeftOf(a, b))

\* The numeric literals under the date arithmetic at q.
NumbersUnder(q) == {p \in Within(q, "Literal") : isnumeric(At(ast, p).val)}

\* The magnitude of the date arithmetic at q: the first numeric literal
\* found under it.
MagnitudeAt(q) ==
    int(At(ast, CHOOSE p \in NumbersUnder(q) :
                    \A r \in NumbersUnder(q) \ {p} : FoundBefore(p, r)).val)

\* The days per unit of the date arithmetic at q: its unit argument, else a
\* unit token under it, else the literal it multiplies by, else one day.
FactorAt(q) ==
    IF HasArg(q, "unit") THEN days(At(ast, ArgPos(q, "unit")).val)
    ELSE IF Within(q, "Var") # {}
         THEN days(At(ast, CHOOSE p \in Within(q, "Var") : TRUE).val)
         ELSE IF Within(q, "Mul") # {}
              THEN int(ArgOf(At(ast, CHOOSE p \in Within(q, "Mul") : TRUE), "expression").val)
              ELSE 1

\* The date arithmetic nodes of the statement.
DateArithmetic == WithinAny(<< >>, {"DateSub", "Sub", "DateAdd"})

\* C25 (big_date_range, magnitude and unit): when the date arithmetic under
\* a date predicate holds several numeric literals, the first one found is
\* the magnitude of the span, and the days per unit come from the unit
\* argument, else from a bare unit token, else from a multiplication
\* literal.  Stated for the statements with one date predicate and one date
\* arithmetic node in it.
C25_FirstLiteralIsMagnitude ==
    (/\ verdict.rule = "big_date_range"
     /\ Cardinality(RangePredicates) = 1
     /\ Cardinality(DateArithmetic) = 1
     /\ \A p \in RangePredicates : IsDateNamed(p)
     /\ \A q \in DateArithmetic : Cardinality(NumbersUnder(q)) > 1) =>
        \A q \in DateArithmetic :
            verdict.flag <=> MagnitudeAt(q) * FactorAt(q) > 365

\* The comparisons in a Where or a Join on an operand named for a date.
DateComparisons ==
    {p \in UNION {WithinAny(w, {"Between", "GTE", "GT", "EQ"}) :
                     w \in NodesOf("Where") \cup NodesOf("Join")} : IsDateNamed(p)}

\* C26 (big_table_no_date): check_big_table_no_date reports the
\* symbol-table entries that are not aliases, have no dim_ prefix and have
\* no date comparison tied to them; in a statement with no date comparison
\* at all, every such large table is reported and the rule returns true
\* iff it reports any.
C26_BigTableNoDate ==
    (verdict.rule = "big_table_no_date" /\ DateComparisons = {}) =>
        /\ verdict.status = "ok"
        /\ Range(verdict.evidence) =
              {k \in DOMAIN SymbolTable :
                  /\ ~SymbolTable[k].is_alias
                  /\ ~IsPrefix(<<"d", "i", "m", "_">>, SymbolTable[k].table)}
        /\ verdict.flag <=> verdict.evidence # << >>

RealEntries(r) == Range(NamesIn(job, r)) \ {Placeholder}

\* C28 (flag and list agree): after any sequence of statements, the flag of
\* each evidence rule is true iff its list holds a real table entry, and
\* the placeholder is in no list that holds a real entry.
C28_FlagAgreesWithList ==
    \A r \in EvidenceRules :
        /\ job[FlagOf(r)] <=> RealEntries(r) # {}
        /\ Placeholder \in Range(NamesIn(job, r)) => RealEntries(r) = {}

\* The entries get_partitioned_tables returns for the statement.
PartitionedTables == get_partitioned_tables(ast, columns_dict, key_order)

\* C29 (the two resolvers agree): every table get_partitioned_tables
\* returns, and check_partition_used can report, is in the symbol table
\* get_queried_tables builds with the large-table row count, with the same
\* partition column, also for a wildcard reference that matches several
\* catalog entries and in every order of the catalog's keys.
C29_ResolversAgree ==
    verdict.rule = "partition_used" =>
        \A k \in DOMAIN PartitionedTables :
            LET name == PartitionedTables[k].full_table_name
            IN /\ name \in DOMAIN SymbolTable
               /\ column_text(SymbolTable[name].partitioned_column)
                     = PartitionedTables[k].partition_column

\* The pass just taken ran the rule blocks on its statement.
Evaluated(st) ==
    ~ContainsDeclare(st) /\ ~st.parse_error /\ ~st.udf /\ ~st.set_item

\* C30 (enabled list): under every configuration, also one that
\* Config.from_yaml built from a file listing some rules only, the rules
\* Job.check_antipatterns runs on a statement are exactly the names
\* Config.get_enabled_antipatterns returns: a rule is in that list iff
\* is_antipattern_enabled holds of it.
C30_RunsExactlyEnabled ==
    /\ [][(LoopPass /\ Evaluated(cur')) => ran' = get_enabled_antipatterns]_vars
    /\ [](\A r \in Rules : r \in get_enabled_antipatterns <=> is_antipattern_enabled(r))

=============================================================================
